---- MODULE Spec2Model ----
(***************************************************************************)
(* State-unemployment pipeline: validate.py (row validation, cross-row     *)
(* reconciliation, publish gate), clean.py (dedupe, pivot, append),        *)
(* output.py (store reader, rankings, report rows) and main.py             *)
(* (orchestration and run manifest).                                       *)
(*                                                                         *)
(* Text that the code parses or formats (months, dates) is a sequence of   *)
(* one-character strings.  Rates are tenths of a percent (4.6 -> 46).      *)
(* An optional cell is a record with a kind: "none", "num" or "text".      *)
(***************************************************************************)
EXTENDS Integers, Sequences, FiniteSets, TLC

VARIABLES
    n_input_files,      \* number of files matching raw_data/*.xlsx
    raw_records,        \* rows of sheet "in" of the input file, as dicts
    entry,              \* the entry point being run: main.py, validate.py, clean.py or output.py
    pc,                 \* position inside the running entry point
    validated,          \* list[ValidatedRow] held in memory by the running process
    gate_passed,        \* result of _check_publish_gate ("None" before it ran)
    latest_data_month,  \* latest publishable month_canonical, "" as <<>>
    rows_file,          \* validated_rows_*.json named by validate_output.json
    store,              \* clean_data/clean_data.jsonl, one CleanRow per line
    final_rows,         \* list returned by the last run_clean
    clean_output,       \* clean_output.json
    manifest,           \* main()'s in-memory manifest dict
    run_manifest_json,  \* run_manifest.json as last written
    history,            \* statuses written to run_manifest.json, in order
    output_runs,        \* number of run_output calls made so far
    clean_rows,         \* list returned by the last _read_latest_clean_data
    clock,              \* datetime.now(), in ticks
    runs_left,          \* entry points that may still be started
    exit_code,          \* exit status of the last process ("None" while running)
    call,               \* a helper called on its own: its name and arguments
    ret,                \* the values returned to that caller, in order
    store_exists,       \* whether clean_data/clean_data.jsonl exists
    reports             \* the report files written by the last run_output that got there

vars == << n_input_files, raw_records, entry, pc, validated, gate_passed,
           latest_data_month, rows_file, store, final_rows, clean_output,
           manifest, run_manifest_json, history, output_runs, clean_rows, clock,
           runs_left, exit_code, call, ret, store_exists, reports >>

(***************************************************************************)
(* Cells and text                                                          *)
(***************************************************************************)
None == [kind |-> "none", v |-> 0]
Num(x) == [kind |-> "num", v |-> x]
Text(t) == [kind |-> "text", v |-> 0, s |-> t]
IsNone(c) == c.kind = "none"

Digits == {"0", "1", "2", "3", "4", "5", "6", "7", "8", "9"}

DigitVal(c) ==
    CASE c = "0" -> 0 [] c = "1" -> 1 [] c = "2" -> 2 [] c = "3" -> 3
      [] c = "4" -> 4 [] c = "5" -> 5 [] c = "6" -> 6 [] c = "7" -> 7
      [] c = "8" -> 8 [] c = "9" -> 9

DigitChar(d) == << "0", "1", "2", "3", "4", "5", "6", "7", "8", "9" >>[d + 1]

\* Code point order of the characters the model uses (str comparison).
Ord(c) ==
    CASE c = " " -> 32 [] c = "-" -> 45 [] c = "/" -> 47
      [] c \in Digits -> 48 + DigitVal(c)
      [] OTHER -> 97

\* str.strip(): leading and trailing whitespace removed.
RECURSIVE LStrip(_)
LStrip(s) == IF s # << >> /\ Head(s) = " " THEN LStrip(Tail(s)) ELSE s

RECURSIVE RStrip(_)
RStrip(s) ==
    IF s # << >> /\ s[Len(s)] = " " THEN RStrip(SubSeq(s, 1, Len(s) - 1)) ELSE s

Strip(s) == LStrip(RStrip(s))

\* str.split("-")
RECURSIVE SplitDash(_, _)
SplitDash(s, cur) ==
    IF s = << >> THEN << cur >>
    ELSE IF Head(s) = "-" THEN << cur >> \o SplitDash(Tail(s), << >>)
    ELSE SplitDash(Tail(s), Append(cur, Head(s)))

\* int(text) for a text of decimal digits; anything else raises ValueError.
IsIntText(s) == s # << >> /\ \A i \in 1..Len(s) : s[i] \in Digits

RECURSIVE IntOf(_)
IntOf(s) ==
    IF s = << >> THEN 0
    ELSE 10 * IntOf(SubSeq(s, 1, Len(s) - 1)) + DigitVal(s[Len(s)])

\* f"{n}"
RECURSIVE FmtNat(_)
FmtNat(n) == IF n < 10 THEN << DigitChar(n) >> ELSE Append(FmtNat(n \div 10), DigitChar(n % 10))

FmtInt(n) == IF n < 0 THEN << "-" >> \o FmtNat(-n) ELSE FmtNat(n)

\* f"{n:02d}": zero padded to a minimum width of two characters.
Fmt02d(n) == IF n >= 0 /\ n < 10 THEN << "0" >> \o FmtNat(n) ELSE FmtInt(n)

\* a < b for str
RECURSIVE TextLess(_, _)
TextLess(a, b) ==
    IF b = << >> THEN FALSE
    ELSE IF a = << >> THEN TRUE
    ELSE IF Head(a) = Head(b) THEN TextLess(Tail(a), Tail(b))
    ELSE Ord(Head(a)) < Ord(Head(b))

(***************************************************************************)
(* states.py                                                               *)
(***************************************************************************)
STATES == <<
    [name |-> "Alabama", usps_code |-> "AL"],
    [name |-> "Alaska", usps_code |-> "AK"],
    [name |-> "Arizona", usps_code |-> "AZ"],
    [name |-> "Arkansas", usps_code |-> "AR"],
    [name |-> "California", usps_code |-> "CA"],
    [name |-> "Colorado", usps_code |-> "CO"],
    [name |-> "Connecticut", usps_code |-> "CT"],
    [name |-> "Delaware", usps_code |-> "DE"],
    [name |-> "Florida", usps_code |-> "FL"],
    [name |-> "Georgia", usps_code |-> "GA"],
    [name |-> "Hawaii", usps_code |-> "HI"],
    [name |-> "Idaho", usps_code |-> "ID"],
    [name |-> "Illinois", usps_code |-> "IL"],
    [name |-> "Indiana", usps_code |-> "IN"],
    [name |-> "Iowa", usps_code |-> "IA"],
    [name |-> "Kansas", usps_code |-> "KS"],
    [name |-> "Kentucky", usps_code |-> "KY"],
    [name |-> "Louisiana", usps_code |-> "LA"],
    [name |-> "Maine", usps_code |-> "ME"],
    [name |-> "Maryland", usps_code |-> "MD"],
    [name |-> "Massachusetts", usps_code |-> "MA"],
    [name |-> "Michigan", usps_code |-> "MI"],
    [name |-> "Minnesota", usps_code |-> "MN"],
    [name |-> "Mississippi", usps_code |-> "MS"],
    [name |-> "Missouri", usps_code |-> "MO"],
    [name |-> "Montana", usps_code |-> "MT"],
    [name |-> "Nebraska", usps_code |-> "NE"],
    [name |-> "Nevada", usps_code |-> "NV"],
    [name |-> "New Hampshire", usps_code |-> "NH"],
    [name |-> "New Jersey", usps_code |-> "NJ"],
    [name |-> "New Mexico", usps_code |-> "NM"],
    [name |-> "New York", usps_code |-> "NY"],
    [name |-> "North Carolina", usps_code |-> "NC"],
    [name |-> "North Dakota", usps_code |-> "ND"],
    [name |-> "Ohio", usps_code |-> "OH"],
    [name |-> "Oklahoma", usps_code |-> "OK"],
    [name |-> "Oregon", usps_code |-> "OR"],
    [name |-> "Pennsylvania", usps_code |-> "PA"],
    [name |-> "Rhode Island", usps_code |-> "RI"],
    [name |-> "South Carolina", usps_code |-> "SC"],
    [name |-> "South Dakota", usps_code |-> "SD"],
    [name |-> "Tennessee", usps_code |-> "TN"],
    [name |-> "Texas", usps_code |-> "TX"],
    [name |-> "Utah", usps_code |-> "UT"],
    [name |-> "Vermont", usps_code |-> "VT"],
    [name |-> "Virginia", usps_code |-> "VA"],
    [name |-> "Washington", usps_code |-> "WA"],
    [name |-> "West Virginia", usps_code |-> "WV"],
    [name |-> "Wisconsin", usps_code |-> "WI"],
    [name |-> "Wyoming", usps_code |-> "WY"]
>>

\* str.strip() and str.upper() on the state names and codes of the inputs.
TextStrip(s) ==
    CASE s = " AL " -> "AL"
      [] s = "Alabama " -> "Alabama"
      [] OTHER -> s

TextUpper(s) ==
    CASE s = "al" -> "AL"
      [] s = "zz" -> "ZZ"
      [] OTHER -> s

get_state_by_code(code) ==
    LET hits == { i \in 1..Len(STATES) : STATES[i].usps_code = TextUpper(code) }
    IN  IF hits = {} THEN << >> ELSE << STATES[CHOOSE i \in hits : TRUE] >>

(***************************************************************************)
(* validate.py: configuration                                              *)
(***************************************************************************)
IMPLAUSIBLE_RATE_LOWER_BOUND == 0
IMPLAUSIBLE_RATE_UPPER_BOUND == 1000
RATE_WARNING_THRESHOLD == 150
PUBLISH_GATE_THRESHOLD == 40
TOTAL_STATES == 50

(***************************************************************************)
(* validate.py: helpers                                                    *)
(***************************************************************************)
\* _DATE_PATTERN = ^(\d{4})[/-](\d{2})$
DateMatches(s) ==
    /\ Len(s) = 7
    /\ \A i \in {1, 2, 3, 4, 6, 7} : s[i] \in Digits
    /\ s[5] \in {"/", "-"}

\* << >> is None; a match gives << "YYYY-MM" >>.
_normalize_date(raw) ==
    LET s == Strip(raw)
    IN  IF DateMatches(s)
        THEN << SubSeq(s, 1, 4) \o << "-" >> \o SubSeq(s, 6, 7) >>
        ELSE << >>

\* ok = FALSE is the ValueError of int() or of the two-name unpacking.
_prev_month(year_month) ==
    LET parts == SplitDash(year_month, << >>)
    IN  IF Len(parts) # 2 \/ ~IsIntText(parts[1]) \/ ~IsIntText(parts[2])
        THEN [ok |-> FALSE, text |-> << >>]
        ELSE LET year == IntOf(parts[1])
                 month == IntOf(parts[2]) - 1
             IN  IF month = 0
                 THEN [ok |-> TRUE, text |-> FmtInt(year - 1) \o << "-" >> \o Fmt02d(12)]
                 ELSE [ok |-> TRUE, text |-> FmtInt(year) \o << "-" >> \o Fmt02d(month)]


(***************************************************************************)
(* validate.py: _validate_row                                              *)
(***************************************************************************)
Flag(cat, txt, chars, nums) == [cat |-> cat, txt |-> txt, chars |-> chars, nums |-> nums]

HasFlag(row, cat) == \E i \in 1..Len(row.qa_flags) : row.qa_flags[i].cat = cat

\* pydantic's lax str -> float for the rate texts of the inputs.
FloatTexts == {"4.6"}
FloatOfText(t) == CASE t = "4.6" -> 46

\* str(cell).strip() of line 144 for a month cell that is not None.
MonthStr(cell) == IF cell.kind = "num" THEN FmtInt(cell.v) ELSE Strip(cell.s)

FloatCoercible(cell) ==
    cell.kind \in {"none", "num"} \/ (cell.kind = "text" /\ cell.s \in FloatTexts)

FloatCoerced(cell) ==
    IF cell.kind = "text" THEN Num(FloatOfText(cell.s)) ELSE cell

\* RawRow(**raw_dict) succeeds.
RawRowCoercible(raw_dict) ==
    /\ raw_dict.state.kind = "text"
    /\ raw_dict.state_code.kind = "text"
    /\ raw_dict.month.kind # "none"
    /\ FloatCoercible(raw_dict.unemployment_rate)
    /\ FloatCoercible(raw_dict.unemployment_rate_prev_month)
    /\ raw_dict.source.kind = "text"

\* Mutant of RateImplausible: the upper bound itself is accepted.
RateImplausibleUpperOpen(v) ==
    v < IMPLAUSIBLE_RATE_LOWER_BOUND \/ v > IMPLAUSIBLE_RATE_UPPER_BOUND

\* line 182: rate < LOWER or rate >= UPPER
RateImplausible(v) ==
    v < IMPLAUSIBLE_RATE_LOWER_BOUND \/ v >= IMPLAUSIBLE_RATE_UPPER_BOUND

\* Mutant of StructuralFailure: the row is kept as an unpublishable row with a
\* flag of its own instead of being dropped.
StructuralFailureKept(raw_dict, row_index) ==
    << [ state_canonical |-> "",
         state_code |-> IF raw_dict.state_code.kind = "text"
                        THEN TextUpper(TextStrip(raw_dict.state_code.s)) ELSE "",
         month_canonical |-> << >>,
         unemployment_rate |-> None,
         unemployment_rate_prev_month |-> None,
         source |-> "",
         source_row_index |-> row_index,
         qa_flags |-> << Flag("structural_error", << >>, << >>, << >>) >>,
         is_publishable |-> FALSE ] >>

\* lines 148-150: the except branch logs the row and returns None (<< >>).
StructuralFailure(raw_dict, row_index) == << >>

\* << >> is None (row dropped); otherwise << ValidatedRow >>.
_validate_row(raw_dict, row_index) ==
    IF ~RawRowCoercible(raw_dict) THEN StructuralFailure(raw_dict, row_index)
    ELSE
    LET raw_state == raw_dict.state.s
        raw_month == MonthStr(raw_dict.month)
        rate == FloatCoerced(raw_dict.unemployment_rate)
        prev == FloatCoerced(raw_dict.unemployment_rate_prev_month)
        code_upper == TextUpper(TextStrip(raw_dict.state_code.s))
        state_ref == get_state_by_code(code_upper)
        state_flags ==
            IF state_ref = << >>
            THEN << Flag("unknown_state_code", << code_upper >>, << >>, << >>) >>
            ELSE IF TextStrip(raw_state) # state_ref[1].name
            THEN << Flag("state_name_normalized",
                         << TextStrip(raw_state), state_ref[1].name >>, << >>, << >>) >>
            ELSE << >>
        canonical_name ==
            IF state_ref = << >> THEN TextStrip(raw_state) ELSE state_ref[1].name
        normalized == _normalize_date(raw_month)
        month_canonical == IF normalized = << >> THEN raw_month ELSE normalized[1]
        date_flags ==
            IF normalized = << >>
            THEN << Flag("unparseable_date", << >>, << raw_month >>, << >>) >>
            ELSE IF Strip(raw_month) # month_canonical
            THEN << Flag("date_corrected", << >>,
                         << Strip(raw_month), month_canonical >>, << >>) >>
            ELSE << >>
        rate_implausible == ~IsNone(rate) /\ RateImplausible(rate.v)
        rate_flags ==
            IF IsNone(rate) THEN << Flag("missing_rate", << >>, << >>, << >>) >>
            ELSE IF rate_implausible
            THEN << Flag("implausible_rate", << >>, << >>, << rate.v >>) >>
            ELSE IF rate.v >= RATE_WARNING_THRESHOLD
            THEN << Flag("rate_unusually_high", << >>, << >>, << rate.v >>) >>
            ELSE << >>
        prev_flags ==
            IF IsNone(prev) THEN << Flag("missing_prev_month", << >>, << >>, << >>) >>
            ELSE << >>
        \* publishable starts True; each blocking branch assigns False
        p_state == IF state_ref = << >> THEN FALSE ELSE TRUE
        p_date == IF normalized = << >> THEN FALSE ELSE p_state
        publishable == IF IsNone(rate) \/ rate_implausible THEN FALSE ELSE p_date
    IN  << [ state_canonical |-> canonical_name,
             state_code |-> code_upper,
             month_canonical |-> month_canonical,
             unemployment_rate |-> rate,
             unemployment_rate_prev_month |-> prev,
             source |-> raw_dict.source.s,
             source_row_index |-> row_index,
             qa_flags |-> state_flags \o date_flags \o rate_flags \o prev_flags,
             is_publishable |-> publishable ] >>


(***************************************************************************)
(* validate.py: cross-row passes and publish gate                          *)
(***************************************************************************)
Indices(rows) == [i \in 1..Len(rows) |-> i]

\* Mutant of ContributesClaim: unpublishable rows contribute claims too.
ContributesClaimAnyVerdict(row) ==
    /\ ~IsNone(row.unemployment_rate_prev_month)
    /\ _prev_month(row.month_canonical).ok

\* Row j contributes a prev_month claim (lines 218-227).
ContributesClaim(row) ==
    /\ row.is_publishable
    /\ ~IsNone(row.unemployment_rate_prev_month)
    /\ _prev_month(row.month_canonical).ok

\* prev_month_claims[(state_code, month)]: the claiming rows' indices, in list order.
ClaimsFor(rows, state_code, month) ==
    LET claims(j) ==
            /\ ContributesClaim(rows[j])
            /\ rows[j].state_code = state_code
            /\ _prev_month(rows[j].month_canonical).text = month
    IN  SelectSeq(Indices(rows), claims)

\* The claims that differ from the row's current rate (line 235), in list order.
ConflictingClaims(rows, i) ==
    LET differs(j) ==
            rows[i].unemployment_rate.v # rows[j].unemployment_rate_prev_month.v
    IN  IF ~rows[i].is_publishable \/ IsNone(rows[i].unemployment_rate)
        THEN << >>
        ELSE SelectSeq(ClaimsFor(rows, rows[i].state_code, rows[i].month_canonical),
                       differs)

\* Mutant of _check_rate_conflicts: the verdict is assigned from the conflict test,
\* so a row without a conflict becomes publishable.
_check_rate_conflicts_reassigning(rows) ==
    [ i \in 1..Len(rows) |->
        LET hits == ConflictingClaims(rows, i)
        IN  IF hits = << >> THEN [ rows[i] EXCEPT !.is_publishable = TRUE ]
            ELSE [ rows[i] EXCEPT
                     !.qa_flags = Append(@,
                         Flag("rate_conflict", << >>, << >>,
                              << rows[i].unemployment_rate.v,
                                 rows[hits[1]].unemployment_rate_prev_month.v,
                                 rows[hits[1]].source_row_index >>)),
                     !.is_publishable = FALSE ] ]

\* Mutant of _check_rate_conflicts: the flag is appended and the verdict is left.
_check_rate_conflicts_flag_only(rows) ==
    [ i \in 1..Len(rows) |->
        LET hits == ConflictingClaims(rows, i)
        IN  IF hits = << >> THEN rows[i]
            ELSE [ rows[i] EXCEPT
                     !.qa_flags = Append(@,
                         Flag("rate_conflict", << >>, << >>,
                              << rows[i].unemployment_rate.v,
                                 rows[hits[1]].unemployment_rate_prev_month.v,
                                 rows[hits[1]].source_row_index >>)) ] ]

_check_rate_conflicts(rows) ==
    [ i \in 1..Len(rows) |->
        LET hits == ConflictingClaims(rows, i)
        IN  IF hits = << >> THEN rows[i]
            ELSE [ rows[i] EXCEPT
                     !.qa_flags = Append(@,
                         Flag("rate_conflict", << >>, << >>,
                              << rows[i].unemployment_rate.v,
                                 rows[hits[1]].unemployment_rate_prev_month.v,
                                 rows[hits[1]].source_row_index >>)),
                     !.is_publishable = FALSE ] ]

\* will_have_value (lines 250-260), as pairs << state_code, month >>.
\* Mutant of WillHaveValue: rows of any verdict supply months.
WillHaveValueAnyVerdict(rows) ==
    { << rows[i].state_code, rows[i].month_canonical >> :
        i \in { k \in 1..Len(rows) : ~IsNone(rows[k].unemployment_rate) } }
    \cup
    { << rows[i].state_code, _prev_month(rows[i].month_canonical).text >> :
        i \in { k \in 1..Len(rows) : ~IsNone(rows[k].unemployment_rate_prev_month) } }

\* will_have_value of lines 250-260
WillHaveValue(rows) ==
    { << rows[i].state_code, rows[i].month_canonical >> :
        i \in { k \in 1..Len(rows) :
                  rows[k].is_publishable /\ ~IsNone(rows[k].unemployment_rate) } }
    \cup
    { << rows[i].state_code, _prev_month(rows[i].month_canonical).text >> :
        i \in { k \in 1..Len(rows) : ContributesClaim(rows[k]) } }

\* Mutant of _check_prev_month_imputed: the row's own verdict is not looked at.
_check_prev_month_imputed_any_verdict(rows) ==
    [ i \in 1..Len(rows) |->
        LET row == rows[i]
            prev == _prev_month(row.month_canonical)
        IN  IF ~HasFlag(row, "missing_prev_month") \/ ~prev.ok THEN row
            ELSE IF << row.state_code, prev.text >> \in WillHaveValue(rows)
            THEN [ row EXCEPT !.qa_flags =
                     Append(@, Flag("prev_month_imputed", << >>, << prev.text >>, << >>)) ]
            ELSE row ]

_check_prev_month_imputed(rows) ==
    [ i \in 1..Len(rows) |->
        LET row == rows[i]
            prev == _prev_month(row.month_canonical)
        IN  IF ~row.is_publishable \/ ~HasFlag(row, "missing_prev_month") THEN row
            ELSE IF ~prev.ok THEN row
            ELSE IF << row.state_code, prev.text >> \in WillHaveValue(rows)
            THEN [ row EXCEPT !.qa_flags =
                     Append(@, Flag("prev_month_imputed", << >>, << prev.text >>, << >>)) ]
            ELSE row ]

\* Number of state_code groups whose rows are all unpublishable (lines 278-284).
FullyUnpublishable(rows) ==
    LET codes == { rows[i].state_code : i \in 1..Len(rows) }
    IN  Cardinality({ c \in codes :
            \A i \in 1..Len(rows) : rows[i].state_code = c => ~rows[i].is_publishable })

\* Mutant of GateTrips: the threshold itself trips the gate.
GateTripsAtThreshold(n) == n * 100 >= PUBLISH_GATE_THRESHOLD * TOTAL_STATES

\* fraction > PUBLISH_GATE_THRESHOLD, with fraction = n / TOTAL_STATES and the
\* threshold in percent.
GateTrips(n) == n * 100 > PUBLISH_GATE_THRESHOLD * TOTAL_STATES

_check_publish_gate(rows) == ~GateTrips(FullyUnpublishable(rows))

\* max(publishable_months) if publishable_months else ""
LatestDataMonth(rows) ==
    LET months == { rows[i].month_canonical :
                      i \in { k \in 1..Len(rows) : rows[k].is_publishable } }
    IN  IF months = {} THEN << >>
        ELSE CHOOSE m \in months : \A o \in months : ~TextLess(m, o)

\* Counter over flag.split(":")[0] of every flag of every row.
_qa_summary(rows) ==
    LET at == { << i, k >> \in (1..Len(rows)) \X (1..8) : k <= Len(rows[i].qa_flags) }
        cats == { rows[p[1]].qa_flags[p[2]].cat : p \in at }
    IN  [ c \in cats |->
            Cardinality({ p \in at : rows[p[1]].qa_flags[p[2]].cat = c }) ]

(***************************************************************************)
(* clean.py                                                                *)
(***************************************************************************)
\* ok = FALSE is the ValueError of int() or of the two-name unpacking.
_prev_month_date(year_month) ==
    LET parts == SplitDash(year_month, << >>)
    IN  IF Len(parts) # 2 \/ ~IsIntText(parts[1]) \/ ~IsIntText(parts[2])
        THEN [ok |-> FALSE, text |-> << >>]
        ELSE LET year == IntOf(parts[1])
                 month == IntOf(parts[2]) - 1
             IN  IF month = 0
                 THEN [ok |-> TRUE,
                       text |-> FmtInt(year - 1) \o << "-" >> \o Fmt02d(12)
                                \o << "-", "0", "1" >>]
                 ELSE [ok |-> TRUE,
                       text |-> FmtInt(year) \o << "-" >> \o Fmt02d(month)
                                \o << "-", "0", "1" >>]

\* The composite key of run_clean's _dedupe call (line 123).
DedupeKey(row) ==
    << row.state_code, row.month_canonical,
       row.unemployment_rate, row.unemployment_rate_prev_month >>

\* Mutant of _dedupe: every row is kept.
_dedupe_keeping_all(rows) == rows

\* First occurrence per key, in input order.
_dedupe(rows) ==
    LET first(i) == \A j \in 1..(i - 1) : DedupeKey(rows[j]) # DedupeKey(rows[i])
        kept == SelectSeq(Indices(rows), first)
    IN  [ k \in 1..Len(kept) |-> rows[kept[k]] ]

\* 1-2 CleanRows of one row: the current-month point, then the prev-month point.
_pivot_row(row, ingest_run) ==
    LET point(date, value) ==
            [ state_canonical |-> row.state_canonical,
              state_code |-> row.state_code,
              date |-> date,
              value |-> value,
              source |-> row.source,
              ingest_run |-> ingest_run,
              source_row_index |-> row.source_row_index ]
        current == << point(row.month_canonical \o << "-", "0", "1" >>,
                            row.unemployment_rate.v) >>
    IN  IF ~IsNone(row.unemployment_rate_prev_month)
        THEN current \o << point(_prev_month_date(row.month_canonical).text,
                                 row.unemployment_rate_prev_month.v) >>
        ELSE current

\* sorted(rows, key=month_canonical): stable, ascending by str order.
SortKeyLess(a, b) == TextLess(a.month_canonical, b.month_canonical)

RECURSIVE InsertSorted(_, _)
InsertSorted(sorted, row) ==
    IF sorted = << >> THEN << row >>
    ELSE IF SortKeyLess(row, sorted[Len(sorted)])
    THEN Append(InsertSorted(SubSeq(sorted, 1, Len(sorted) - 1), row), sorted[Len(sorted)])
    ELSE Append(sorted, row)

RECURSIVE SortByMonth(_)
SortByMonth(rows) ==
    IF rows = << >> THEN << >>
    ELSE InsertSorted(SortByMonth(SubSeq(rows, 1, Len(rows) - 1)), rows[Len(rows)])

RECURSIVE PivotAll(_, _)
PivotAll(rows, ingest_run) ==
    IF rows = << >> THEN << >>
    ELSE _pivot_row(Head(rows), ingest_run) \o PivotAll(Tail(rows), ingest_run)

\* Position of the key in the insertion-ordered dict, 0 when absent.
LookupPos(lookup, state_code, date) ==
    LET hits == { i \in 1..Len(lookup) :
                    lookup[i].state_code = state_code /\ lookup[i].date = date }
    IN  IF hits = {} THEN 0 ELSE CHOOSE i \in hits : TRUE

\* Mutant of IsRevision: every overwrite counts.
IsRevisionOnAnyOverwrite(lookup, clean_row) ==
    LookupPos(lookup, clean_row.state_code, clean_row.date) # 0

\* line 140: the key is present with a different value
IsRevision(lookup, clean_row) ==
    LET pos == LookupPos(lookup, clean_row.state_code, clean_row.date)
    IN  pos # 0 /\ lookup[pos].value # clean_row.value

\* Mutant of Put: the point is appended without looking for its key.
PutAppendOnly(lookup, clean_row) == Append(lookup, clean_row)

\* pivoted_lookup[key] = clean_row (a dict keeps a key's first position)
Put(lookup, clean_row) ==
    LET pos == LookupPos(lookup, clean_row.state_code, clean_row.date)
    IN  IF pos = 0 THEN Append(lookup, clean_row)
        ELSE [ lookup EXCEPT ![pos] = clean_row ]

\* The loop of lines 137-146 over the emitted points, in order.
RECURSIVE PivotFold(_, _, _)
PivotFold(points, lookup, revisions) ==
    IF points = << >> THEN [final_rows |-> lookup, revisions |-> revisions]
    ELSE PivotFold(Tail(points),
                   Put(lookup, Head(points)),
                   IF IsRevision(lookup, Head(points)) THEN revisions + 1 ELSE revisions)

\* Mutant of Publishable: rows of any verdict go on to the pivot.
PublishableOrNot(rows) == rows

\* line 118
Publishable(rows) == SelectSeq(rows, LAMBDA r : r.is_publishable)

\* run_clean's computation (lines 117-147) on the rows it was given or loaded.
CleanResult(validated_rows, ingest_run) ==
    LET publishable == Publishable(validated_rows)
        deduped_validated == _dedupe(publishable)
        sorted_validated == SortByMonth(deduped_validated)
        pivot == PivotFold(PivotAll(sorted_validated, ingest_run), << >>, 0)
    IN  [ final_rows |-> pivot.final_rows,
          rows_deduped_input |-> Len(publishable) - Len(deduped_validated),
          revisions_applied |-> pivot.revisions ]


(***************************************************************************)
(* validate.py: run_validation, step by step                               *)
(***************************************************************************)
\* Mutant of ValidateAll: the index counts the rows kept so far, not the raw rows.
ValidateAllRenumbering(recs) ==
    LET kept == SelectSeq(Indices(recs), LAMBDA i : _validate_row(recs[i], i + 1) # << >>)
    IN  [ k \in 1..Len(kept) |-> _validate_row(recs[kept[k]], k + 1)[1] ]

\* lines 341-345: enumerate(raw_records, start=2), dropped rows left out
ValidateAll(recs) ==
    LET kept == SelectSeq(Indices(recs), LAMBDA i : _validate_row(recs[i], i + 1) # << >>)
    IN  [ k \in 1..Len(kept) |-> _validate_row(recs[kept[k]], kept[k] + 1)[1] ]

NoFile == [exists |-> FALSE, rows |-> << >>, latest_data_month |-> << >>,
           qa_summary |-> << >>]

NoManifest == [status |-> "None", steps_completed |-> << >>]

\* No helper is being called on its own.
NoCall == [fn |-> "none"]

\* lines 332-333 and _find_input_file: exactly one xlsx, or FileNotFoundError
FindInputFile ==
    /\ pc = "run_validation"
    /\ IF n_input_files # 1
       THEN pc' = "raised" /\ exit_code' = "1"
       ELSE pc' = "read" /\ exit_code' = exit_code
    /\ UNCHANGED << n_input_files, raw_records, entry, validated, gate_passed,
                    latest_data_month, rows_file, store, final_rows, clean_output,
                    manifest, run_manifest_json, history, output_runs, clean_rows, clock,
                    runs_left >>
    /\ UNCHANGED << call, ret, store_exists, reports >>

\* Mutant of ValidateRows: the gate check follows the row loop directly and
\* the two cross-row passes are not run before it.
ValidateRowsThenGate ==
    /\ pc = "read"
    /\ validated' = ValidateAll(raw_records)
    /\ pc' = "gate"
    /\ UNCHANGED << n_input_files, raw_records, entry, gate_passed,
                    latest_data_month, rows_file, store, final_rows, clean_output,
                    manifest, run_manifest_json, history, output_runs, clean_rows, clock,
                    runs_left, exit_code >>
    /\ UNCHANGED << call, ret, store_exists, reports >>

\* lines 341-347: the row loop
ValidateRows ==
    /\ pc = "read"
    /\ validated' = ValidateAll(raw_records)
    /\ pc' = "conflicts"
    /\ UNCHANGED << n_input_files, raw_records, entry, gate_passed,
                    latest_data_month, rows_file, store, final_rows, clean_output,
                    manifest, run_manifest_json, history, output_runs, clean_rows, clock,
                    runs_left, exit_code >>
    /\ UNCHANGED << call, ret, store_exists, reports >>

CheckRateConflicts ==
    /\ pc = "conflicts"
    /\ validated' = _check_rate_conflicts(validated)
    /\ pc' = "imputed"
    /\ UNCHANGED << n_input_files, raw_records, entry, gate_passed,
                    latest_data_month, rows_file, store, final_rows, clean_output,
                    manifest, run_manifest_json, history, output_runs, clean_rows, clock,
                    runs_left, exit_code >>
    /\ UNCHANGED << call, ret, store_exists, reports >>

CheckPrevMonthImputed ==
    /\ pc = "imputed"
    /\ validated' = _check_prev_month_imputed(validated)
    /\ pc' = "gate"
    /\ UNCHANGED << n_input_files, raw_records, entry, gate_passed,
                    latest_data_month, rows_file, store, final_rows, clean_output,
                    manifest, run_manifest_json, history, output_runs, clean_rows, clock,
                    runs_left, exit_code >>
    /\ UNCHANGED << call, ret, store_exists, reports >>

\* lines 353-358
CheckPublishGate ==
    /\ pc = "gate"
    /\ latest_data_month' = LatestDataMonth(validated)
    /\ gate_passed' = _check_publish_gate(validated)
    /\ pc' = "write"
    /\ UNCHANGED << n_input_files, raw_records, entry, validated, rows_file, store,
                    final_rows, clean_output, manifest, run_manifest_json, history,
                    output_runs, clean_rows, clock, runs_left, exit_code >>
    /\ UNCHANGED << call, ret, store_exists, reports >>

\* lines 360-380: the rows file and validate_output.json, then return
WriteValidateOutput ==
    /\ pc = "write"
    /\ rows_file' = [exists |-> TRUE, rows |-> validated,
                     latest_data_month |-> latest_data_month,
                     qa_summary |-> _qa_summary(validated)]
    /\ pc' = IF entry = "main" THEN "main_validated" ELSE "validate_returned"
    /\ UNCHANGED << n_input_files, raw_records, entry, validated, gate_passed,
                    latest_data_month, store, final_rows, clean_output, manifest,
                    run_manifest_json, history, output_runs, clean_rows, clock, runs_left,
                    exit_code >>
    /\ UNCHANGED << call, ret, store_exists, reports >>

(***************************************************************************)
(* clean.py: run_clean                                                     *)
(***************************************************************************)
\* Mutant of AppendLines: the file is written anew.
WriteLines(lines, rows) == rows

\* lines 153-155: open("a") and one line per row
AppendLines(lines, rows) == lines \o rows

\* Mutant of RowsAfterClean: run_clean flags the rows it pivots.
RowsAfterCleanFlagged(validated_rows) ==
    [ i \in 1..Len(validated_rows) |->
        IF validated_rows[i].is_publishable
        THEN [ validated_rows[i] EXCEPT
                 !.qa_flags = Append(@, Flag("pivoted", << >>, << >>, << >>)) ]
        ELSE validated_rows[i] ]

\* lines 117-147 only read validated_rows: the filter and sorted() build new
\* lists, model_dump() new dicts and ValidatedRow(**d) new rows.
RowsAfterClean(validated_rows) == validated_rows

\* lines 109-115 raise FileNotFoundError when validate_output.json is absent.
RunClean ==
    /\ pc = "run_clean"
    /\ IF entry = "clean" /\ ~rows_file.exists
       THEN /\ pc' = "raised"
            /\ exit_code' = "1"
            /\ UNCHANGED << validated, final_rows, store, store_exists, clean_output,
                            clock >>
       ELSE LET validated_rows == IF entry = "clean" THEN rows_file.rows ELSE validated
                result == CleanResult(validated_rows, clock)
            IN  /\ final_rows' = result.final_rows
                /\ store' = AppendLines(store, result.final_rows)
                /\ store_exists' = TRUE
                /\ clean_output' =
                       [ rows_appended |-> Len(result.final_rows),
                         rows_deduped_input |-> result.rows_deduped_input,
                         revisions_applied |-> result.revisions_applied ]
                /\ validated' = RowsAfterClean(validated_rows)
                /\ clock' = clock + 1
                /\ pc' = IF entry = "main" THEN "main_cleaned" ELSE "clean_returned"
                /\ exit_code' = exit_code
    /\ UNCHANGED << n_input_files, raw_records, entry, gate_passed,
                    latest_data_month, rows_file, manifest, run_manifest_json,
                    history, output_runs, clean_rows, runs_left >>
    /\ UNCHANGED << call, ret, reports >>

(***************************************************************************)
(* output.py: the reader of the long-format store                          *)
(***************************************************************************)
\* Mutant of IngestNewer: an older line replaces a newer one.
IngestOlder(a, b) == a < b

\* line 75: row["ingest_run"] > by_key[key]["ingest_run"]
IngestNewer(a, b) == a > b

\* lines 74-76 for one line of the store; by_key keeps a key's first position
KeepLatest(by_key, row) ==
    LET pos == LookupPos(by_key, row.state_code, row.date)
    IN  IF pos = 0 THEN Append(by_key, row)
        ELSE IF IngestNewer(row.ingest_run, by_key[pos].ingest_run)
        THEN [ by_key EXCEPT ![pos] = row ]
        ELSE by_key

RECURSIVE ReadLines(_, _)
ReadLines(lines, by_key) ==
    IF lines = << >> THEN by_key
    ELSE ReadLines(Tail(lines), KeepLatest(by_key, Head(lines)))

\* list(by_key.values()) over the lines of clean_data.jsonl
_read_latest_clean_data(lines) == ReadLines(lines, << >>)

(***************************************************************************)
(* output.py: competition ranking                                          *)
(***************************************************************************)
\* x sorts before y: descending by value when reverse, ascending otherwise.
SortsBefore(x, y, reverse) == IF reverse THEN x.value > y.value ELSE x.value < y.value

\* sorted(items, key=value, reverse=reverse): stable in both directions.
RECURSIVE InsertItem(_, _, _)
InsertItem(sorted_items, item, reverse) ==
    IF sorted_items = << >> THEN << item >>
    ELSE IF SortsBefore(item, sorted_items[Len(sorted_items)], reverse)
    THEN Append(InsertItem(SubSeq(sorted_items, 1, Len(sorted_items) - 1), item, reverse),
                sorted_items[Len(sorted_items)])
    ELSE Append(sorted_items, item)

RECURSIVE SortItems(_, _)
SortItems(items, reverse) ==
    IF items = << >> THEN << >>
    ELSE InsertItem(SortItems(SubSeq(items, 1, Len(items) - 1), reverse),
                    items[Len(items)], reverse)

\* Mutant of TieEnd: every item is a group of its own.
TieEndSingle(sorted_items, i, j) == j

\* lines 129-131: j runs on while the value equals that of position i.
\* Positions count from 1 here; j is the last position of the group.
RECURSIVE TieEnd(_, _, _)
TieEnd(sorted_items, i, j) ==
    IF j + 1 <= Len(sorted_items) /\ sorted_items[j + 1].value = sorted_items[i].value
    THEN TieEnd(sorted_items, i, j + 1)
    ELSE j

\* ranks[key] = rank on an insertion-ordered dict
SetRank(ranks, key, rank) ==
    LET hits == { k \in 1..Len(ranks) : ranks[k].key = key }
    IN  IF hits = {} THEN Append(ranks, [key |-> key, rank |-> rank])
        ELSE [ ranks EXCEPT ![CHOOSE k \in hits : TRUE] = [key |-> key, rank |-> rank] ]

\* lines 132-133: every position of the group gets the rank of its first position
RECURSIVE SetRanks(_, _, _, _, _)
SetRanks(ranks, sorted_items, k, last, rank) ==
    IF k > last THEN ranks
    ELSE SetRanks(SetRank(ranks, sorted_items[k].key, rank), sorted_items, k + 1, last, rank)

\* the outer while loop of lines 128-134, from position i
RECURSIVE RankGroups(_, _, _)
RankGroups(sorted_items, i, ranks) ==
    IF i > Len(sorted_items) THEN ranks
    ELSE LET last == TieEnd(sorted_items, i, i)
         IN  RankGroups(sorted_items, last + 1,
                        SetRanks(ranks, sorted_items, i, last, i))

_competition_ranks(items, reverse) == RankGroups(SortItems(items, reverse), 1, << >>)

(***************************************************************************)
(* output.py: run_output                                                   *)
(***************************************************************************)
\* Nothing has been written to wordsmith_json_payload/ or dw_viz_data/.
NoReports == [written |-> FALSE, month |-> << >>, wordsmith |-> << >>,
              map |-> << >>, table |-> << >>]

_MONTH_ABBREVS ==
    << "Jan.", "Feb.", "March", "April", "May", "June", "July", "Aug.", "Sept.",
       "Oct.", "Nov.", "Dec." >>

\* int() on each of exactly three "-" separated parts, else ValueError
ThreeInts(date_str) ==
    LET parts == SplitDash(date_str, << >>)
    IN  Len(parts) = 3 /\ \A i \in 1..3 : IsIntText(parts[i])

\* ok = FALSE is the ValueError of line 34 or the KeyError of line 35.
\* The text "Dec. 1, 2025" is kept as its three parts.
_format_ap_date(date_str) ==
    LET parts == SplitDash(date_str, << >>)
    IN  IF ~ThreeInts(date_str) \/ IntOf(parts[2]) \notin 1..12
        THEN [ok |-> FALSE, text |-> << >>]
        ELSE [ok |-> TRUE,
              text |-> << _MONTH_ABBREVS[IntOf(parts[2])], FmtInt(IntOf(parts[3])),
                          FmtInt(IntOf(parts[1])) >>]

\* output._prev_month_date(date_str), on "YYYY-MM-DD"; ok = FALSE is the
\* ValueError of line 107.
output_prev_month_date(date_str) ==
    LET parts == SplitDash(date_str, << >>)
    IN  IF ~ThreeInts(date_str)
        THEN [ok |-> FALSE, text |-> << >>]
        ELSE LET year == IntOf(parts[1])
                 month == IntOf(parts[2]) - 1
             IN  IF month = 0
                 THEN [ok |-> TRUE,
                       text |-> FmtInt(year - 1) \o << "-" >> \o Fmt02d(12)
                                \o << "-", "0", "1" >>]
                 ELSE [ok |-> TRUE,
                       text |-> FmtInt(year) \o << "-" >> \o Fmt02d(month)
                                \o << "-", "0", "1" >>]

\* lines 270-275 and 290-291: the month passed in, or the one of run_manifest.json
\* when none was passed, or the latest month of the store; ok = FALSE is the
\* ValueError of max() on an empty sequence.
ResolveLatestMonth(passed, written, rows) ==
    LET given ==
            IF passed # << >> THEN passed[1]
            ELSE IF written.status # "None" /\ ~IsNone(written.latest_data_month)
            THEN written.latest_data_month.s
            ELSE << >>
    IN  IF given # << >> THEN [ok |-> TRUE, text |-> given]
        ELSE IF rows = << >> THEN [ok |-> FALSE, text |-> << >>]
        ELSE LET \* r["date"][:7]
                 months == { SubSeq(rows[i].date, 1,
                                    IF Len(rows[i].date) < 7 THEN Len(rows[i].date) ELSE 7) :
                             i \in 1..Len(rows) }
             IN  [ok |-> TRUE,
                  \* max() of str
                  text |-> CHOOSE t \in months : \A u \in months : ~TextLess(t, u)]

\* lines 285-287: value_lookup.get((code, date)), << >> for None
ValueLookup(rows, code, date) ==
    LET pos == LookupPos(rows, code, date)
    IN  IF pos = 0 THEN << >> ELSE << rows[pos].value >>

\* lines 295-297: the keys of state_months, in order of first appearance
RECURSIVE StateCodes(_, _)
StateCodes(rows, seen) ==
    IF rows = << >> THEN seen
    ELSE StateCodes(Tail(rows),
                    IF \E k \in 1..Len(seen) : seen[k] = Head(rows).state_code
                    THEN seen ELSE Append(seen, Head(rows).state_code))

\* lines 303-311: (change, trend) of one (code, date); change in tenths
MomData(rows, code, date) ==
    LET prev == output_prev_month_date(date).text
        curr_val == ValueLookup(rows, code, date)
        prev_val == ValueLookup(rows, code, prev)
    IN  IF curr_val # << >> /\ prev_val # << >>
        THEN LET change == curr_val[1] - prev_val[1]
             IN  [change |-> << change >>,
                  trend |-> IF change > 0 THEN "up"
                            ELSE IF change < 0 THEN "down" ELSE "flat"]
        ELSE [change |-> << >>, trend |-> "None"]

\* lines 314-318: the states with a value at the latest date, as (code, value)
LatestStates(rows, latest_date) ==
    LET codes == StateCodes(rows, << >>)
        with == SelectSeq(codes, LAMBDA c : ValueLookup(rows, c, latest_date) # << >>)
    IN  [ k \in 1..Len(with) |->
            [key |-> with[k], value |-> ValueLookup(rows, with[k], latest_date)[1]] ]

\* The two-letter codes of states.py in str order.
USPS_SORTED ==
    << "AK", "AL", "AR", "AZ", "CA", "CO", "CT", "DE", "FL", "GA",
       "HI", "IA", "ID", "IL", "IN", "KS", "KY", "LA", "MA", "MD",
       "ME", "MI", "MN", "MO", "MS", "MT", "NC", "ND", "NE", "NH",
       "NJ", "NM", "NV", "NY", "OH", "OK", "OR", "PA", "RI", "SC",
       "SD", "TN", "TX", "UT", "VA", "VT", "WA", "WI", "WV", "WY" >>

\* sorted(latest_states.keys()), leaving out the codes get_state_by_code
\* does not know (lines 344-347, 382-385)
SortedKnownCodes(items) ==
    SelectSeq(USPS_SORTED, LAMBDA c : \E k \in 1..Len(items) : items[k].key = c)

\* _load_qa_flags, lines 80-97, then .get((code, month), []): the flags of the
\* rows of the validated rows file with that state code and month, in order
RECURSIVE FlagsOf(_, _, _)
FlagsOf(rows, code, month) ==
    IF rows = << >> THEN << >>
    ELSE (IF Head(rows).state_code = code /\ Head(rows).month_canonical = month
          THEN Head(rows).qa_flags ELSE << >>)
         \o FlagsOf(Tail(rows), code, month)

_load_qa_flags(file, code, month) ==
    IF ~file.exists THEN << >> ELSE FlagsOf(file.rows, code, month)

\* lines 343-378: the entries of the wordsmith JSON, without the rendered
\* sentences and the time stamp; paragraph_3 is rendered iff change is not None
WordsmithEntries(rows, file, latest_data_month_, latest_date) ==
    LET items == LatestStates(rows, latest_date)
        codes == SortedKnownCodes(items)
    IN  [ k \in 1..Len(codes) |->
            LET mom == MomData(rows, codes[k], latest_date)
            IN  [ state |-> get_state_by_code(codes[k])[1].name,
                  state_code |-> codes[k],
                  month |-> latest_data_month_,
                  unemployment_rate |-> ValueLookup(rows, codes[k], latest_date)[1],
                  mom_change_pp |-> mom.change,
                  trend_direction |-> mom.trend,
                  paragraph_3 |-> mom.change # << >>,
                  qa_flags |-> _load_qa_flags(file, codes[k], latest_data_month_) ] ]

\* lines 381-400: the rows of the map CSV, without the reference columns
MapRows(rows, latest_date) ==
    LET items == LatestStates(rows, latest_date)
        codes == SortedKnownCodes(items)
        rate_ranks == _competition_ranks(items, TRUE)
        \* rate_ranks.get(code, {}).get("national", default)
        NationalRank(ranks, code) ==
            ranks[CHOOSE k \in 1..Len(ranks) : ranks[k].key = code].rank
    IN  [ k \in 1..Len(codes) |->
            LET mom == MomData(rows, codes[k], latest_date)
            IN  [ date |-> latest_date,
                  state_code |-> codes[k],
                  unemployment_rate |-> ValueLookup(rows, codes[k], latest_date)[1],
                  mom_change_pp |-> mom.change,
                  trend_direction |-> mom.trend,
                  rate_rank_national |-> NationalRank(rate_ranks, codes[k]) ] ]

\* lines 403-426: the rows of the table CSV, sorted by national rate rank
\* (a stable sort of the keys of latest_states), without the reference columns
TableRows(rows, latest_date) ==
    LET items == LatestStates(rows, latest_date)
        rate_ranks == _competition_ranks(items, TRUE)
        \* rate_ranks.get(code, {}).get("national", default)
        NationalRank(ranks, code) ==
            ranks[CHOOSE k \in 1..Len(ranks) : ranks[k].key = code].rank
        by_rank == SortItems([ k \in 1..Len(items) |->
                                 [key |-> items[k].key,
                                  value |-> NationalRank(rate_ranks, items[k].key)] ],
                             FALSE)
        known == SelectSeq(by_rank, LAMBDA x : get_state_by_code(x.key) # << >>)
    IN  [ k \in 1..Len(known) |->
            [ date |-> latest_date,
              state_code |-> known[k].key,
              unemployment_rate |-> ValueLookup(rows, known[k].key, latest_date)[1],
              mom_change_pp |-> MomData(rows, known[k].key, latest_date).change ] ]

\* What run_output does with the lines of the store: ok = FALSE when it raises,
\* at line 291 (no month given and no row), at line 303 (a date that
\* _prev_month_date cannot parse) or at line 354 (a latest date that
\* _format_ap_date cannot render for a state that has a value there).
OutputResult(lines, file, passed, written) ==
    LET rows == _read_latest_clean_data(lines)
        latest == ResolveLatestMonth(passed, written, rows)
        latest_date == latest.text \o << "-", "0", "1" >>
    IN  IF ~latest.ok
        THEN [ok |-> FALSE, clean_rows |-> rows, reports |-> NoReports]
        ELSE IF \E i \in 1..Len(rows) : ~output_prev_month_date(rows[i].date).ok
        THEN [ok |-> FALSE, clean_rows |-> rows, reports |-> NoReports]
        ELSE IF /\ SortedKnownCodes(LatestStates(rows, latest_date)) # << >>
                /\ ~_format_ap_date(latest_date).ok
        THEN [ok |-> FALSE, clean_rows |-> rows, reports |-> NoReports]
        ELSE [ok |-> TRUE, clean_rows |-> rows,
              reports |->
                  [ written |-> TRUE,
                    month |-> latest.text,
                    wordsmith |-> WordsmithEntries(rows, file, latest.text, latest_date)
                                    \o << >>,
                    map |-> MapRows(rows, latest_date) \o << >>,
                    table |-> TableRows(rows, latest_date) \o << >> ] ]

(***************************************************************************)
(* main.py                                                                 *)
(***************************************************************************)
\* A process starts with empty memory; files stay as they are.
Startable == pc \in {"idle", "exited", "raised"} /\ runs_left > 0

\* lines 32-50: the initial manifest, written with status "started"
MainStart ==
    /\ Startable
    /\ entry' = "main"
    /\ runs_left' = runs_left - 1
    /\ manifest' = [ status |-> "started",
                     steps_completed |-> << >>,
                     latest_data_month |-> None,
                     rows_ingested |-> None,
                     rows_validated |-> None,
                     rows_publishable |-> None,
                     states_with_data |-> None,
                     gate_passed |-> "None",
                     abort_reason |-> "None" ]
    /\ run_manifest_json' = manifest'
    /\ history' = << "started" >>
    /\ validated' = << >>
    /\ gate_passed' = FALSE
    /\ latest_data_month' = << >>
    /\ final_rows' = << >>
    /\ exit_code' = "None"
    /\ pc' = "main_started"
    /\ clean_rows' = << >>
    /\ UNCHANGED << n_input_files, raw_records, rows_file, store, clean_output,
                    output_runs, clock >>
    /\ UNCHANGED << call, ret, store_exists, reports >>

\* lines 55-58
MainValidating ==
    /\ pc = "main_started"
    /\ manifest' = [manifest EXCEPT !.status = "validating"]
    /\ run_manifest_json' = manifest'
    /\ history' = Append(history, "validating")
    /\ pc' = "run_validation"
    /\ UNCHANGED << n_input_files, raw_records, entry, validated, gate_passed,
                    latest_data_month, rows_file, store, final_rows, clean_output,
                    output_runs, clean_rows, clock, runs_left, exit_code >>
    /\ UNCHANGED << call, ret, store_exists, reports >>

PyBool(b) == IF b THEN "True" ELSE "False"

\* Mutant of ManifestAfterValidate: the validate step is not recorded.
ManifestWithoutValidateStep(m, rows, gate, latest) ==
    [ m EXCEPT
        !.rows_ingested = Num(Len(rows)),
        !.rows_validated = Num(Len(rows)),
        !.rows_publishable = Num(Len(Publishable(rows))),
        !.states_with_data =
            Num(Cardinality({ rows[i].state_code :
                    i \in { k \in 1..Len(rows) : rows[k].is_publishable } })),
        !.latest_data_month = Text(latest),
        !.gate_passed = PyBool(gate) ]

\* lines 60-72
ManifestAfterValidate(m, rows, gate, latest) ==
    [ m EXCEPT
        !.steps_completed = Append(@, "validate"),
        !.rows_ingested = Num(Len(rows)),
        !.rows_validated = Num(Len(rows)),
        !.rows_publishable = Num(Len(Publishable(rows))),
        !.states_with_data =
            Num(Cardinality({ rows[i].state_code :
                    i \in { k \in 1..Len(rows) : rows[k].is_publishable } })),
        !.latest_data_month = Text(latest),
        !.gate_passed = PyBool(gate) ]

\* Mutant of MainAborts: the gate result is not looked at.
MainAbortsNever(gate) == FALSE

\* line 74
MainAborts(gate) == ~gate

\* lines 60-85: record the validate step, then abort or go on to the clean step
MainGate ==
    /\ pc = "main_validated"
    /\ LET m == ManifestAfterValidate(manifest, validated, gate_passed, latest_data_month)
       IN  IF MainAborts(gate_passed)
           THEN /\ manifest' = [ m EXCEPT
                      !.status = "ABORTED",
                      !.abort_reason =
                          "Publish gate tripped: too many states fully unpublishable." ]
                /\ history' = Append(history, "ABORTED")
                /\ pc' = "exited"
                /\ exit_code' = "1"
           ELSE /\ manifest' = [ m EXCEPT !.status = "cleaning" ]
                /\ history' = Append(history, "cleaning")
                /\ pc' = "run_clean"
                /\ exit_code' = exit_code
    /\ run_manifest_json' = manifest'
    /\ UNCHANGED << n_input_files, raw_records, entry, validated, gate_passed,
                    latest_data_month, rows_file, store, final_rows, clean_output,
                    output_runs, clean_rows, clock, runs_left >>
    /\ UNCHANGED << call, ret, store_exists, reports >>

\* lines 89-96
MainOutputting ==
    /\ pc = "main_cleaned"
    /\ manifest' = [ manifest EXCEPT
                       !.steps_completed = Append(@, "clean"),
                       !.status = "outputting" ]
    /\ run_manifest_json' = manifest'
    /\ history' = Append(history, "outputting")
    /\ pc' = "run_output"
    /\ UNCHANGED << n_input_files, raw_records, entry, validated, gate_passed,
                    latest_data_month, rows_file, store, final_rows, clean_output,
                    output_runs, clean_rows, clock, runs_left, exit_code >>
    /\ UNCHANGED << call, ret, store_exists, reports >>

\* main.py line 98 and output.py line 460: run_output(run_id, latest_data_month)
\* from main(), run_output(run_id) from output.py.  It reads the store
\* (FileNotFoundError when there is none), computes the reports and writes
\* them; an exception is caught by neither caller and ends the process.
RunOutput ==
    /\ pc = "run_output"
    /\ output_runs' = output_runs + 1
    /\ IF ~store_exists
       THEN /\ pc' = "raised"
            /\ exit_code' = "1"
            /\ UNCHANGED << clean_rows, reports >>
       ELSE LET passed == IF entry = "main" THEN << latest_data_month >> ELSE << >>
                result == OutputResult(store, rows_file, passed, run_manifest_json)
            IN  /\ clean_rows' = result.clean_rows
                /\ IF result.ok
                   THEN /\ reports' = result.reports
                        /\ pc' = IF entry = "main" THEN "main_output"
                                  ELSE "output_returned"
                        /\ exit_code' = exit_code
                   ELSE /\ reports' = reports
                        /\ pc' = "raised"
                        /\ exit_code' = "1"
    /\ UNCHANGED << n_input_files, raw_records, entry, validated, gate_passed,
                    latest_data_month, rows_file, store, final_rows, clean_output,
                    manifest, run_manifest_json, history, clock, runs_left >>
    /\ UNCHANGED << call, ret, store_exists >>

\* lines 100-104
MainCompleted ==
    /\ pc = "main_output"
    /\ manifest' = [ manifest EXCEPT
                       !.steps_completed = Append(@, "output"),
                       !.status = "completed" ]
    /\ run_manifest_json' = manifest'
    /\ history' = Append(history, "completed")
    /\ pc' = "exited"
    /\ exit_code' = "0"
    /\ UNCHANGED << n_input_files, raw_records, entry, validated, gate_passed,
                    latest_data_month, rows_file, store, final_rows, clean_output,
                    output_runs, clean_rows, clock, runs_left >>
    /\ UNCHANGED << call, ret, store_exists, reports >>

(***************************************************************************)
(* Standalone entry points: python validate.py, clean.py, output.py        *)
(***************************************************************************)
\* validate.py lines 387-395
ValidateStart ==
    /\ Startable
    /\ entry' = "validate"
    /\ runs_left' = runs_left - 1
    /\ manifest' = NoManifest
    /\ validated' = << >>
    /\ gate_passed' = FALSE
    /\ latest_data_month' = << >>
    /\ final_rows' = << >>
    /\ exit_code' = "None"
    /\ pc' = "run_validation"
    /\ clean_rows' = << >>
    /\ UNCHANGED << n_input_files, raw_records, rows_file, store, clean_output,
                    run_manifest_json, history, output_runs, clock >>
    /\ UNCHANGED << call, ret, store_exists, reports >>

\* validate.py lines 397-407
ValidateExit ==
    /\ pc = "validate_returned"
    /\ exit_code' = IF ~gate_passed THEN "1" ELSE "0"
    /\ pc' = "exited"
    /\ UNCHANGED << n_input_files, raw_records, entry, validated, gate_passed,
                    latest_data_month, rows_file, store, final_rows, clean_output,
                    manifest, run_manifest_json, history, output_runs, clean_rows, clock,
                    runs_left >>
    /\ UNCHANGED << call, ret, store_exists, reports >>

\* clean.py lines 180-188
CleanStart ==
    /\ Startable
    /\ entry' = "clean"
    /\ runs_left' = runs_left - 1
    /\ manifest' = NoManifest
    /\ validated' = << >>
    /\ gate_passed' = FALSE
    /\ latest_data_month' = << >>
    /\ final_rows' = << >>
    /\ exit_code' = "None"
    /\ pc' = "run_clean"
    /\ clean_rows' = << >>
    /\ UNCHANGED << n_input_files, raw_records, rows_file, store, clean_output,
                    run_manifest_json, history, output_runs, clock >>
    /\ UNCHANGED << call, ret, store_exists, reports >>

\* clean.py line 189
CleanExit ==
    /\ pc = "clean_returned"
    /\ entry = "clean"
    /\ exit_code' = "0"
    /\ pc' = "exited"
    /\ UNCHANGED << n_input_files, raw_records, entry, validated, gate_passed,
                    latest_data_month, rows_file, store, final_rows, clean_output,
                    manifest, run_manifest_json, history, output_runs, clean_rows, clock,
                    runs_left >>
    /\ UNCHANGED << call, ret, store_exists, reports >>


\* output.py lines 453-460
OutputStart ==
    /\ Startable
    /\ entry' = "output"
    /\ runs_left' = runs_left - 1
    /\ manifest' = NoManifest
    /\ validated' = << >>
    /\ gate_passed' = FALSE
    /\ latest_data_month' = << >>
    /\ final_rows' = << >>
    /\ exit_code' = "None"
    /\ pc' = "run_output"
    /\ clean_rows' = << >>
    /\ UNCHANGED << n_input_files, raw_records, rows_file, store, clean_output,
                    run_manifest_json, history, output_runs, clock >>
    /\ UNCHANGED << call, ret, store_exists, reports >>

\* output.py line 461
OutputExit ==
    /\ pc = "output_returned"
    /\ entry = "output"
    /\ exit_code' = "0"
    /\ pc' = "exited"
    /\ UNCHANGED << n_input_files, raw_records, entry, validated, gate_passed,
                    latest_data_month, rows_file, store, final_rows, clean_output,
                    manifest, run_manifest_json, history, output_runs, clean_rows, clock,
                    runs_left >>
    /\ UNCHANGED << call, ret, store_exists, reports >>

(***************************************************************************)
(* Inputs                                                                  *)
(***************************************************************************)
MaxRows == 3
MinFill == 19
MaxFill == 21
MaxGateFree == 2
MaxRuns == 3

\* "YYYY-MM" of a year of four digits
Month(y, m) == FmtNat(y) \o << "-" >> \o Fmt02d(m)

\* A year written with four digits.
Year4(y) ==
    IF y < 10 THEN << "0", "0", "0" >> \o FmtNat(y)
    ELSE IF y < 100 THEN << "0", "0" >> \o FmtNat(y)
    ELSE IF y < 1000 THEN << "0" >> \o FmtNat(y)
    ELSE FmtNat(y)

YearMonth(y, m) == Year4(y) \o << "-" >> \o Fmt02d(m)

RawDict(name, code, month, rate, prev) ==
    [ state |-> Text(name), state_code |-> Text(code), month |-> Text(month),
      unemployment_rate |-> rate, unemployment_rate_prev_month |-> prev,
      source |-> Text("BLS") ]

ListsUpTo(S, n) == UNION { [1..k -> S] : k \in 0..n }

DataMonths == { Month(2024, 12), Month(2025, 1), Month(2025, 2) }
DataRates == { None, Num(46), Num(50) }

DataRows ==
    { RawDict("Alabama", "AL", m, r, p) : m \in DataMonths, r \in DataRates, p \in DataRates }
    \cup { RawDict("Alabama", "AL", Month(2025, 1), Num(100), Num(90)),
           RawDict("Alaska", "AK", Month(2025, 1), Num(46), None),
           RawDict("Alaska", "AK", Month(2025, 2), Num(50), Num(46)) }

DataBatches == ListsUpTo(DataRows, MaxRows)

\* k states, in table order, each with one row that lacks its rate
Filler(k) ==
    [ i \in 1..k |->
        RawDict(STATES[i].name, STATES[i].usps_code, Month(2025, 1), None, None) ]

GateRows ==
    { RawDict("Alabama", "AL", Month(2025, 1), None, None),
      RawDict("Alabama", "AL", Month(2025, 2), Num(46), None),
      RawDict("Wyoming", "WY", Month(2025, 1), None, Num(46)),
      RawDict("Wyoming", "WY", Month(2025, 2), Num(46), Num(50)),
      RawDict("Zedland", "ZZ", Month(2025, 1), Num(46), None),
      \* rows that RawRow rejects: an empty source cell, a rate cell with text
      [ RawDict("Wyoming", "WY", Month(2025, 1), None, None) EXCEPT !.source = None ],
      [ RawDict("Alabama", "AL", Month(2025, 2), Text("n/a"), Num(50)) EXCEPT
          !.state = Text("Ala.") ] }

GateBatches ==
    { Filler(k) \o f : k \in MinFill..MaxFill, f \in ListsUpTo(GateRows, MaxGateFree) }

InitMemory ==
    /\ entry = "none"
    /\ clean_rows = << >>
    /\ validated = << >>
    /\ gate_passed = FALSE
    /\ latest_data_month = << >>
    /\ final_rows = << >>
    /\ manifest = NoManifest
    /\ exit_code = "None"

InitFiles ==
    /\ rows_file = NoFile
    /\ store = << >>
    /\ clean_output = [rows_appended |-> 0, rows_deduped_input |-> 0,
                       revisions_applied |-> 0]
    /\ run_manifest_json = NoManifest
    /\ history = << >>
    /\ output_runs = 0
    /\ clock = 1
    /\ store_exists = FALSE
    /\ reports = NoReports

InitCalls ==
    /\ call = NoCall
    /\ ret = << >>

(***************************************************************************)
(* Spec: one run of main.py                                                *)
(***************************************************************************)
Init ==
    /\ InitMemory
    /\ InitFiles
    /\ InitCalls
    /\ pc = "idle"
    /\ runs_left = 1
    /\ \/ n_input_files = 1 /\ raw_records \in DataBatches \cup GateBatches
       \/ n_input_files \in {0, 2} /\ raw_records = << >>

Next ==
    \/ MainStart
    \/ MainValidating
    \/ FindInputFile
    \/ ValidateRows
    \/ CheckRateConflicts
    \/ CheckPrevMonthImputed
    \/ CheckPublishGate
    \/ WriteValidateOutput
    \/ MainGate
    \/ RunClean
    \/ MainOutputting
    \/ RunOutput
    \/ MainCompleted

Spec == Init /\ [][Next]_vars

(***************************************************************************)
(* SpecClean: run_clean(validated_rows=rows) called on row-validated rows  *)
(***************************************************************************)
InitClean ==
    /\ InitFiles
    /\ InitCalls
    /\ n_input_files = 1
    /\ raw_records \in DataBatches
    /\ entry = "call"
    /\ clean_rows = << >>
    /\ validated = ValidateAll(raw_records)
    /\ gate_passed = FALSE
    /\ latest_data_month = << >>
    /\ final_rows = << >>
    /\ manifest = NoManifest
    /\ exit_code = "None"
    /\ pc = "run_clean"
    /\ runs_left = 0

SpecClean == InitClean /\ [][RunClean]_vars


(***************************************************************************)
(* SpecRow: _validate_row on one raw row                                   *)
(***************************************************************************)
Chars_2025_12 == << "2", "0", "2", "5", "-", "1", "2" >>

RowMonths ==
    { Text(Chars_2025_12),
      Text(<< "2", "0", "2", "5", "/", "1", "2" >>),
      Text(<< " ", "2", "0", "2", "5", "/", "0", "1", " " >>),
      Text(<< "2", "0", "2", "5" >>),
      Text(<< "2", "0", "2", "5", "-", "1" >>),
      Text(<< "2", "0", "2", "5", "-", "1", "2", "-", "0", "1" >>),
      Text(<< "D", "e", "c" >>),
      Text(<< "2", "0", "2", "5", " ", "1", "2" >>),
      Num(202512),
      None }

RowRates ==
    { None, Num(-1), Num(0), Num(46), Num(149), Num(150), Num(999), Num(1000),
      Num(1001), Text("4.6"), Text("n/a") }

RowPrevRates == { None, Num(45), Text("n/a") }

RowStates == { Text("Alabama"), Text("Alabama "), Text("Ala."), None }

RowCodes == { Text("AL"), Text("al"), Text(" AL "), Text("ZZ"), Text("zz"), None }

RowSources == { Text("BLS"), None }

RichRows ==
    { [ state |-> st, state_code |-> co, month |-> mo, unemployment_rate |-> ra,
        unemployment_rate_prev_month |-> pr, source |-> so ] :
        st \in RowStates, co \in RowCodes, mo \in RowMonths, ra \in RowRates,
        pr \in RowPrevRates, so \in RowSources }

InitRow ==
    /\ InitMemory
    /\ InitFiles
    /\ InitCalls
    /\ n_input_files = 1
    /\ \E r \in RichRows : raw_records = << r >>
    /\ pc = "read"
    /\ runs_left = 0

SpecRow == InitRow /\ [][ValidateRows]_vars

(***************************************************************************)
(* SpecEntry: main.py, validate.py, clean.py and output.py run one after    *)
(* another                                                                 *)
(***************************************************************************)
InitEntry ==
    /\ InitMemory
    /\ InitFiles
    /\ InitCalls
    /\ n_input_files = 1
    /\ raw_records \in GateBatches
    /\ pc = "idle"
    /\ runs_left = MaxRuns

NextEntry ==
    \/ Next
    \/ ValidateStart
    \/ ValidateExit
    \/ CleanStart
    \/ CleanExit
    \/ OutputStart
    \/ OutputExit

SpecEntry == InitEntry /\ [][NextEntry]_vars

(***************************************************************************)
(* SpecStore: run_clean called in-process on one batch after another, the  *)
(* store read back between calls, datetime.now() free to be set back       *)
(***************************************************************************)
MaxCalls == 3
MaxClock == 3
MaxStoreRows == 2

StoreRows ==
    { RawDict("Alabama", "AL", Month(2025, 2), Num(50), Num(46)),
      RawDict("Alabama", "AL", Month(2025, 1), Num(50), None),
      RawDict("Alaska", "AK", Month(2025, 1), Num(46), None) }

StoreBatches == ListsUpTo(StoreRows, MaxStoreRows)

\* run_validation's rows for a batch (validate.py lines 341-351)
Reconciled(recs) == _check_prev_month_imputed(_check_rate_conflicts(ValidateAll(recs)))

InitStore ==
    /\ InitFiles
    /\ InitCalls
    /\ n_input_files = 1
    /\ raw_records = << >>
    /\ entry = "call"
    /\ clean_rows = << >>
    /\ validated = << >>
    /\ gate_passed = FALSE
    /\ latest_data_month = << >>
    /\ final_rows = << >>
    /\ manifest = NoManifest
    /\ exit_code = "None"
    /\ pc = "idle"
    /\ runs_left = MaxCalls

\* run_clean(validated_rows=...) is called with the rows of a batch
CallClean ==
    /\ entry = "call"
    /\ pc \in {"idle", "clean_returned", "read_returned"}
    /\ runs_left > 0
    /\ \E b \in StoreBatches :
          /\ raw_records' = b
          /\ validated' = Reconciled(b)
    /\ runs_left' = runs_left - 1
    /\ pc' = "run_clean"
    /\ UNCHANGED << n_input_files, entry, gate_passed, latest_data_month, rows_file,
                    store, final_rows, clean_output, manifest, run_manifest_json,
                    history, output_runs, clean_rows, clock, exit_code >>
    /\ UNCHANGED << call, ret, store_exists, reports >>

\* output.py line 280: the store is read back
ReadStore ==
    /\ entry = "call"
    /\ pc = "clean_returned"
    /\ clean_rows' = _read_latest_clean_data(store)
    /\ pc' = "read_returned"
    /\ UNCHANGED << n_input_files, raw_records, entry, validated, gate_passed,
                    latest_data_month, rows_file, store, final_rows, clean_output,
                    manifest, run_manifest_json, history, output_runs, clock,
                    runs_left, exit_code >>
    /\ UNCHANGED << call, ret, store_exists, reports >>

\* The wall clock read by datetime.now() (clean.py line 106) is set to another time.
ClockAdjust ==
    /\ entry = "call"
    /\ pc \in {"clean_returned", "read_returned"}
    /\ \E t \in 1..MaxClock : t # clock /\ clock' = t
    /\ UNCHANGED << n_input_files, raw_records, entry, pc, validated, gate_passed,
                    latest_data_month, rows_file, store, final_rows, clean_output,
                    manifest, run_manifest_json, history, output_runs, clean_rows,
                    runs_left, exit_code >>
    /\ UNCHANGED << call, ret, store_exists, reports >>

NextStore == CallClean \/ RunClean \/ ReadStore \/ ClockAdjust

SpecStore == InitStore /\ [][NextStore]_vars

(***************************************************************************)
(* SpecPivot: _pivot_row on one publishable row                            *)
(***************************************************************************)
FirstYear == 2024
LastYear == 2025

\* Month texts that _normalize_date accepts: the calendar months of two years,
\* a "YYYY/MM" text, years up to 1000 and the month numbers 00 and 13.
PivotMonths ==
    { Text(Month(y, m)) : y \in FirstYear..LastYear, m \in 1..12 }
    \cup { Text(<< "2", "0", "2", "5", "/", "0", "3" >>) }
    \cup { Text(YearMonth(999, 5)), Text(YearMonth(1000, 1)), Text(YearMonth(2025, 0)),
           Text(YearMonth(2025, 13)) }

PivotRates == { Num(0), Num(46), Num(150), Num(999) }
PivotPrevRates == { None, Num(0), Num(45), Num(46) }

PivotRows ==
    { [ state |-> Text(st.name), state_code |-> Text(st.usps_code), month |-> mo,
        unemployment_rate |-> ra, unemployment_rate_prev_month |-> pr,
        source |-> Text("BLS") ] :
        st \in { STATES[1], STATES[2], STATES[50] }, mo \in PivotMonths,
        ra \in PivotRates, pr \in PivotPrevRates }

InitPivot ==
    /\ InitFiles
    /\ InitCalls
    /\ n_input_files = 1
    /\ \E r \in PivotRows : raw_records = << r >>
    /\ entry = "call"
    /\ clean_rows = << >>
    /\ validated = Reconciled(raw_records)
    /\ gate_passed = FALSE
    /\ latest_data_month = << >>
    /\ final_rows = << >>
    /\ manifest = NoManifest
    /\ exit_code = "None"
    /\ pc = "pivot"
    /\ runs_left = 0

\* clean.py line 138: _pivot_row(row, ingest_run_ts) for one row
PivotRow ==
    /\ pc = "pivot"
    /\ Len(validated) = 1
    /\ validated[1].is_publishable
    /\ final_rows' = _pivot_row(validated[1], clock)
    /\ pc' = "pivoted"
    /\ UNCHANGED << n_input_files, raw_records, entry, validated, gate_passed,
                    latest_data_month, rows_file, store, clean_output, manifest,
                    run_manifest_json, history, output_runs, clean_rows, clock,
                    runs_left, exit_code >>
    /\ UNCHANGED << call, ret, store_exists, reports >>

SpecPivot == InitPivot /\ [][PivotRow]_vars

(***************************************************************************)
(* SpecPrev: validate._prev_month and clean._prev_month_date called on a   *)
(* month text "YYYY-MM" of a calendar month                                *)
(***************************************************************************)
PrevYears == { 1, 999, 1000, 1001, 2024, 2025, 9999 }

PrevMonths == { YearMonth(y, m) : y \in PrevYears, m \in 1..12 }

InitPrev ==
    /\ InitMemory
    /\ InitFiles
    /\ n_input_files = 1
    /\ raw_records = << >>
    /\ \E m \in PrevMonths : call = [fn |-> "_prev_month", year_month |-> m]
    /\ ret = << >>
    /\ pc = "call"
    /\ runs_left = 0

\* validate._prev_month(year_month)
CallPrevMonth ==
    /\ pc = "call"
    /\ call.fn = "_prev_month"
    /\ ret' = Append(ret, _prev_month(call.year_month))
    /\ pc' = "call_date"
    /\ UNCHANGED << n_input_files, raw_records, entry, validated, gate_passed,
                    latest_data_month, rows_file, store, final_rows, clean_output,
                    manifest, run_manifest_json, history, output_runs, clean_rows,
                    clock, runs_left, exit_code, call, store_exists, reports >>

\* clean._prev_month_date(year_month) on the same text
CallPrevMonthDate ==
    /\ pc = "call_date"
    /\ call.fn = "_prev_month"
    /\ ret' = Append(ret, _prev_month_date(call.year_month))
    /\ pc' = "returned"
    /\ UNCHANGED << n_input_files, raw_records, entry, validated, gate_passed,
                    latest_data_month, rows_file, store, final_rows, clean_output,
                    manifest, run_manifest_json, history, output_runs, clean_rows,
                    clock, runs_left, exit_code, call, store_exists, reports >>

NextPrev == CallPrevMonth \/ CallPrevMonthDate

SpecPrev == InitPrev /\ [][NextPrev]_vars

(***************************************************************************)
(* SpecRanks: _competition_ranks called on the items of a dict             *)
(***************************************************************************)
MaxItems == 3

RankKeys == { "AL", "AK", "AZ", "AR" }
RankValues == { -10, 40, 50 }

\* list(state_values.items()): pairs with pairwise distinct keys
RankItems ==
    { items \in ListsUpTo([key : RankKeys, value : RankValues], MaxItems) :
        \A a, b \in 1..Len(items) : a # b => items[a].key # items[b].key }

InitRanks ==
    /\ InitMemory
    /\ InitFiles
    /\ n_input_files = 1
    /\ raw_records = << >>
    /\ \E items \in RankItems, reverse \in BOOLEAN :
          call = [fn |-> "_competition_ranks", items |-> items, reverse |-> reverse]
    /\ ret = << >>
    /\ pc = "call"
    /\ runs_left = 0

CallCompetitionRanks ==
    /\ pc = "call"
    /\ call.fn = "_competition_ranks"
    /\ ret' = << _competition_ranks(call.items, call.reverse) >>
    /\ pc' = "returned"
    /\ UNCHANGED << n_input_files, raw_records, entry, validated, gate_passed,
                    latest_data_month, rows_file, store, final_rows, clean_output,
                    manifest, run_manifest_json, history, output_runs, clean_rows,
                    clock, runs_left, exit_code, call, store_exists, reports >>

SpecRanks == InitRanks /\ [][CallCompetitionRanks]_vars

(***************************************************************************)
(* SpecMonths: one run of main.py on rows whose month texts match the date *)
(* pattern with a year below 1000 or a month number outside 01..12         *)
(***************************************************************************)
MaxMonthRows == 2

AcceptedMonths ==
    { YearMonth(999, 12), YearMonth(1000, 1), YearMonth(2025, 0), YearMonth(2025, 12),
      YearMonth(2025, 13) }

MonthRows ==
    { RawDict("Alabama", "AL", m, r, p) :
        m \in AcceptedMonths, r \in { Num(46), Num(50) }, p \in { None, Num(46), Num(50) } }

MonthBatches == ListsUpTo(MonthRows, MaxMonthRows)

InitMonths ==
    /\ InitMemory
    /\ InitFiles
    /\ InitCalls
    /\ pc = "idle"
    /\ runs_left = 1
    /\ n_input_files = 1
    /\ raw_records \in MonthBatches

SpecMonths == InitMonths /\ [][Next]_vars

(***************************************************************************)
(* SpecFlags: the row loop and the two cross-row passes of run_validation  *)
(* on rows that raise every kind of QA flag                                *)
(***************************************************************************)
MaxFlagRows == 2

FlagRows ==
    { RawDict("Alabama", "AL", Month(2025, 1), Num(46), Num(45)),
      RawDict("Alabama", "AL", Month(2025, 1), Num(46), None),
      RawDict("Alabama", "AL", Month(2025, 2), Num(50), Num(50)),
      RawDict("Alabama", "AL", Month(2025, 2), Num(150), None),
      RawDict("Alabama", "AL", Month(2025, 2), None, Num(46)),
      RawDict("Alabama", "AL", Month(2025, 2), Num(1000), Num(50)),
      RawDict("Alabama", "AL", Month(2025, 2), Num(-1), None),
      RawDict("Ala.", "al", << "2", "0", "2", "5", "/", "0", "2" >>, Num(50), Num(50)),
      RawDict("Alabama", "AL", << "2", "0", "2", "5", "-", "2" >>, Num(50), Num(50)),
      RawDict("Zedland", "ZZ", Month(2025, 2), Num(50), Num(50)),
      RawDict("Zedland", "zz", << "D", "e", "c" >>, None, None) }

FlagBatches == ListsUpTo(FlagRows, MaxFlagRows)

InitFlags ==
    /\ InitMemory
    /\ InitFiles
    /\ InitCalls
    /\ n_input_files = 1
    /\ raw_records \in FlagBatches
    /\ pc = "read"
    /\ runs_left = 0

NextFlags == ValidateRows \/ CheckRateConflicts \/ CheckPrevMonthImputed

SpecFlags == InitFlags /\ [][NextFlags]_vars

(***************************************************************************)
(* Properties                                                              *)
(***************************************************************************)
\* The calendar month before "YYYY-MM" (MM in 01..12), as "YYYY-MM".
CalendarPrev(month) ==
    LET y == IntOf(SubSeq(month, 1, 4))
        m == IntOf(SubSeq(month, 6, 7))
    IN  IF m = 1 THEN Month(y - 1, 12) ELSE Month(y, m - 1)

FirstOf(month) == month \o << "-", "0", "1" >>

\* The month before the calendar month "YYYY-MM", as "YYYY-MM".
PreviousMonth(year_month) ==
    LET y == IntOf(SubSeq(year_month, 1, 4))
        m == IntOf(SubSeq(year_month, 6, 7))
    IN  IF m = 1 THEN YearMonth(y - 1, 12) ELSE YearMonth(y, m - 1)

\* "YYYY-MM" with MM in 01..12
IsCalendarMonth(month) ==
    /\ DateMatches(month)
    /\ month[5] = "-"
    /\ IntOf(SubSeq(month, 6, 7)) \in 1..12

\* Row j is a row for the calendar month after the month of row i.
MonthAfter(rows, i, j) ==
    /\ IsCalendarMonth(rows[i].month_canonical)
    /\ IsCalendarMonth(rows[j].month_canonical)
    /\ PreviousMonth(rows[j].month_canonical) = rows[i].month_canonical

\* "YYYY-MM-01" with a year of four digits and MM in 01..12
WellFormedDate(date) ==
    /\ Len(date) = 10
    /\ IsCalendarMonth(SubSeq(date, 1, 7))
    /\ SubSeq(date, 8, 10) = << "-", "0", "1" >>

PointsAt(points, state_code, date) ==
    { i \in 1..Len(points) : points[i].state_code = state_code /\ points[i].date = date }

CleanReturned == pc \in {"clean_returned", "main_cleaned"}

\* C1: the points run_clean returns hold at most one point per (state_code, date),
\* and they are exactly the lines the call appended to the store.
C1_OnePointPerKey ==
    CleanReturned =>
        /\ \A i, j \in 1..Len(final_rows) :
              (final_rows[i].state_code = final_rows[j].state_code
                  /\ final_rows[i].date = final_rows[j].date) => i = j
        /\ store = final_rows

\* C1 witness: two emitted points met on one key and one point came out for it.
C1_Witness ==
    /\ pc = "clean_returned"
    /\ Len(final_rows) >= 2
    /\ Len(PivotAll(_dedupe(Publishable(validated)), 0)) > Len(final_rows)
    /\ store = final_rows

\* C2: when a publishable row for state X and calendar month M+1 has a prior
\* rate, there is a point for (X, M) and it is the prior-month point of a
\* month-M+1 row, never the current-month point of a month-M row; and a batch
\* made of A = (X, M, a, _) and B = (X, M+1, _, p) with p # a gives (X, M) = p
\* with exactly one revision applied.  (X, M) is the key (X, "YYYY-MM-01") of
\* the calendar month before that of the later row.
C2_RevisionPrecedence ==
    CleanReturned =>
        LET pub == Publishable(validated)
            claims == { j \in 1..Len(pub) :
                          /\ ~IsNone(pub[j].unemployment_rate_prev_month)
                          /\ IsCalendarMonth(pub[j].month_canonical) }
            from_next(point, j) ==
                \E k \in claims :
                    /\ pub[k].state_code = pub[j].state_code
                    /\ pub[k].month_canonical = pub[j].month_canonical
                    /\ point.value = pub[k].unemployment_rate_prev_month.v
                    /\ point.source_row_index = pub[k].source_row_index
        IN  /\ \A j \in claims :
                LET at == PointsAt(final_rows, pub[j].state_code,
                                   FirstOf(PreviousMonth(pub[j].month_canonical)))
                IN  at # {} /\ \A i \in at : from_next(final_rows[i], j)
            /\ \A a, b \in 1..Len(pub) :
                ( /\ Len(pub) = 2
                  /\ pub[a].state_code = pub[b].state_code
                  /\ MonthAfter(pub, a, b)
                  /\ ~IsNone(pub[b].unemployment_rate_prev_month)
                  /\ pub[b].unemployment_rate_prev_month.v # pub[a].unemployment_rate.v )
                => /\ clean_output.revisions_applied = 1
                   /\ \A i \in PointsAt(final_rows, pub[a].state_code,
                                        FirstOf(pub[a].month_canonical)) :
                          final_rows[i].value = pub[b].unemployment_rate_prev_month.v


\* run_validation has returned to main() (or main() went on from there).
PostGate ==
    entry = "main"
    /\ pc \in {"main_validated", "run_clean", "main_cleaned", "run_output",
               "main_output", "exited"}

RunCleanCalled == clock > 1

\* main() stopped, and it never started the clean step.
StoppedBeforeClean ==
    entry = "main" /\ pc \in {"exited", "raised"} /\ ~RunCleanCalled

\* What C3 says of a batch whose gate did not pass.
AbortedAsClaimed ==
    (PostGate /\ ~gate_passed) =>
        /\ ~RunCleanCalled
        /\ output_runs = 0
        /\ store = << >>
        /\ pc \in {"main_validated", "exited"}
        /\ pc = "exited" =>
              /\ exit_code = "1"
              /\ run_manifest_json.status = "ABORTED"
              /\ run_manifest_json.gate_passed = "False"
              /\ run_manifest_json.abort_reason # "None"

\* C3 as stated: a failed gate aborts main() as described, and a tripped gate is
\* the only condition under which main() stops before the clean step.
C3_AsStated ==
    /\ AbortedAsClaimed
    /\ StoppedBeforeClean => run_manifest_json.status = "ABORTED"

\* C3 amended: a failed gate aborts main() as described; main() stops before the
\* clean step only when the gate tripped or when run_validation raised because
\* raw_data/ does not hold exactly one xlsx, the manifest then left at "validating".
C3_AbortOnlyByGateOrMissingInput ==
    /\ AbortedAsClaimed
    /\ StoppedBeforeClean =>
          \/ run_manifest_json.status = "ABORTED" /\ ~gate_passed
          \/ /\ pc = "raised"
             /\ n_input_files # 1
             /\ run_manifest_json.status = "validating"

\* C3 witness: main() has exited on a tripped gate.
C3_Witness ==
    /\ entry = "main"
    /\ pc = "exited"
    /\ ~gate_passed
    /\ exit_code = "1"
    /\ run_manifest_json.status = "ABORTED"
    /\ \E i \in 1..Len(validated) : validated[i].is_publishable
    /\ store = << >>

\* C4: no point of a batch whose publish gate failed is ever appended to the store,
\* whichever entry points are run.
C4_NoAppendAfterFailedGate ==
    store # << >> => _check_publish_gate(rows_file.rows)

\* The state codes none of whose rows is publishable.
CodesWithoutPublishableRow(rows) ==
    { rows[i].state_code : i \in 1..Len(rows) }
        \ { rows[i].state_code : i \in { k \in 1..Len(rows) : rows[k].is_publishable } }

\* C5: the gate fails iff more than 20 state codes have no publishable row.
C5_GateBoundary ==
    pc = "write" =>
        (gate_passed <=> Cardinality(CodesWithoutPublishableRow(validated)) <= 20)

\* C5 witness: 21 fully unpublishable states fail the gate while another state,
\* with a publishable and an unpublishable row, is not counted.
C5_Witness ==
    /\ pc = "write"
    /\ ~gate_passed
    /\ Cardinality(CodesWithoutPublishableRow(validated)) = 21
    /\ \E i, j \in 1..Len(validated) :
          /\ validated[i].state_code = validated[j].state_code
          /\ validated[i].is_publishable
          /\ ~validated[j].is_publishable

\* Row i of pre meets a differing prior-month claim of a publishable row for the
\* same state and the next calendar month.
MeetsDifferingClaim(pre, i) ==
    /\ pre[i].is_publishable
    /\ ~IsNone(pre[i].unemployment_rate)
    /\ \E j \in 1..Len(pre) :
          /\ pre[j].is_publishable
          /\ ~IsNone(pre[j].unemployment_rate_prev_month)
          /\ pre[j].state_code = pre[i].state_code
          /\ CalendarPrev(pre[j].month_canonical) = pre[i].month_canonical
          /\ pre[j].unemployment_rate_prev_month.v # pre[i].unemployment_rate.v

GainedOneConflictFlag(before, after) ==
    /\ ~after.is_publishable
    /\ Len(after.qa_flags) = Len(before.qa_flags) + 1
    /\ SubSeq(after.qa_flags, 1, Len(before.qa_flags)) = before.qa_flags
    /\ after.qa_flags[Len(after.qa_flags)].cat = "rate_conflict"
    /\ [after EXCEPT !.qa_flags = before.qa_flags, !.is_publishable = TRUE] = before

ConflictPass == pc = "conflicts" /\ pc' = "imputed"

\* Row i of pre is publishable with a current rate c for (S, M), and some
\* publishable row of pre for S and the calendar month M+1 has a prior rate
\* p # c.
MeetsClaimOfNextMonth(pre, i) ==
    /\ pre[i].is_publishable
    /\ ~IsNone(pre[i].unemployment_rate)
    /\ \E j \in 1..Len(pre) :
          /\ pre[j].is_publishable
          /\ ~IsNone(pre[j].unemployment_rate_prev_month)
          /\ pre[j].state_code = pre[i].state_code
          /\ MonthAfter(pre, i, j)
          /\ pre[j].unemployment_rate_prev_month.v # pre[i].unemployment_rate.v

\* C6: the conflict pass blocks exactly the publishable rows whose current rate
\* for (S, M) differs from the prior rate of a publishable row for S and month
\* M+1, each gaining one rate_conflict flag; every other row, the claiming row
\* included, is left as it was.
C6_ConflictPass ==
    [][ ConflictPass =>
          /\ Len(validated') = Len(validated)
          /\ \A i \in 1..Len(validated) :
                IF MeetsClaimOfNextMonth(validated, i)
                THEN GainedOneConflictFlag(validated[i], validated'[i])
                ELSE validated'[i] = validated[i] ]_vars

\* C7: every month blocked by rate_conflict still has a point in the pivot output.
C7_BlockedMonthSuperseded ==
    (entry = "main" /\ pc = "main_cleaned") =>
        \A i \in 1..Len(validated) :
            HasFlag(validated[i], "rate_conflict") =>
                PointsAt(final_rows, validated[i].state_code,
                         FirstOf(validated[i].month_canonical)) # {}

\* C8: a row unpublishable before the conflict pass is left as it was, and every
\* row the pass changes meets a claim of a row that was publishable before it.
C8_UnpublishableClaimsIgnored ==
    [][ ConflictPass =>
          \A i \in 1..Len(validated) :
              /\ ~validated[i].is_publishable => validated'[i] = validated[i]
              /\ validated'[i] # validated[i] =>
                    \E j \in 1..Len(validated) :
                        /\ validated[j].is_publishable
                        /\ ~IsNone(validated[j].unemployment_rate_prev_month)
                        /\ validated[j].state_code = validated[i].state_code
                        /\ CalendarPrev(validated[j].month_canonical)
                              = validated[i].month_canonical ]_vars

\* Flags that only _validate_row sets and that make a row unpublishable.
RowBlockingFlags ==
    {"unknown_state_code", "unparseable_date", "missing_rate", "implausible_rate"}

\* C8 witness: after the pass a publishable row stands next to a row for the next
\* month that was unpublishable from the start and states a different prior rate.
C8_Witness ==
    /\ pc = "imputed"
    /\ \E i, j \in 1..Len(validated) :
          /\ validated[i].is_publishable
          /\ \E c \in RowBlockingFlags : HasFlag(validated[j], c)
          /\ ~HasFlag(validated[j], "rate_conflict")
          /\ validated[j].state_code = validated[i].state_code
          /\ CalendarPrev(validated[j].month_canonical) = validated[i].month_canonical
          /\ ~IsNone(validated[j].unemployment_rate_prev_month)
          /\ validated[j].unemployment_rate_prev_month.v
                # validated[i].unemployment_rate.v

\* C9: once a validated row is unpublishable it stays unpublishable.
C9_VerdictMonotone ==
    [][ \A i \in 1..Len(validated) :
          (i <= Len(validated') /\ ~validated[i].is_publishable)
              => ~validated'[i].is_publishable ]_vars

\* C9 witness: run_clean has run on a batch in which the conflict pass turned a row
\* unpublishable.
C9_Witness ==
    /\ pc = "main_cleaned"
    /\ \E i \in 1..Len(validated) :
          /\ HasFlag(validated[i], "rate_conflict")
          /\ ~validated[i].is_publishable
          /\ _validate_row(raw_records[i], i + 1)[1].is_publishable

\* The four blocking checks of a raw row, stated on the raw cells.
CodeInTable(raw) ==
    \E i \in 1..Len(STATES) :
        STATES[i].usps_code = TextUpper(TextStrip(raw.state_code.s))

MonthWellFormed(raw) ==
    LET s == MonthStr(raw.month)
    IN  /\ Len(s) = 7
        /\ \A i \in 1..7 : IF i = 5 THEN s[i] \in {"-", "/"} ELSE s[i] \in Digits

RatePresent(raw) == raw.unemployment_rate.kind # "none"

RateInRange(raw) ==
    LET r == FloatCoerced(raw.unemployment_rate).v
    IN  0 <= r /\ r < 1000

RateOf(raw) == FloatCoerced(raw.unemployment_rate).v

\* C10: a row returned by _validate_row is publishable iff the state code is in the
\* reference table, the month matches YYYY-MM or YYYY/MM, the current rate is
\* present and 0 <= rate < 100 (rates in tenths: 0 <= r < 1000).  Every failing
\* blocking check leaves its own flag whatever the other checks said, and the
\* non-blocking flags appear exactly on their own conditions without entering
\* the verdict.
C10_BlockingChecks ==
    (pc = "conflicts" /\ Len(validated) = 1) =>
        LET raw == raw_records[1]
            row == validated[1]
        IN  /\ row.is_publishable <=>
                  (/\ CodeInTable(raw)
                   /\ MonthWellFormed(raw)
                   /\ RatePresent(raw)
                   /\ RateInRange(raw))
            /\ HasFlag(row, "unknown_state_code") <=> ~CodeInTable(raw)
            /\ HasFlag(row, "unparseable_date") <=> ~MonthWellFormed(raw)
            /\ HasFlag(row, "missing_rate") <=> ~RatePresent(raw)
            /\ HasFlag(row, "implausible_rate") <=>
                  (RatePresent(raw) /\ ~RateInRange(raw))
            /\ HasFlag(row, "rate_unusually_high") <=>
                  (RatePresent(raw) /\ RateInRange(raw) /\ RateOf(raw) >= 150)
            /\ HasFlag(row, "missing_prev_month") <=>
                  IsNone(row.unemployment_rate_prev_month)
            /\ HasFlag(row, "state_name_normalized") =>
                  (row.is_publishable <=>
                      (MonthWellFormed(raw) /\ RatePresent(raw) /\ RateInRange(raw)))

\* C10 witness: a returned row whose rate is exactly 100 and whose state code and
\* month both fail as well, carrying the three blocking flags at once.
C10_Witness ==
    /\ pc = "conflicts"
    /\ Len(validated) = 1
    /\ validated[1].unemployment_rate = Num(1000)
    /\ HasFlag(validated[1], "unknown_state_code")
    /\ HasFlag(validated[1], "unparseable_date")
    /\ HasFlag(validated[1], "implausible_rate")
    /\ HasFlag(validated[1], "missing_prev_month")
    /\ ~validated[1].is_publishable

\* The positions of rows whose composite key no earlier row of the list has.
FirstOfKey(rows) ==
    { i \in 1..Len(rows) : \A j \in 1..(i - 1) : DedupeKey(rows[j]) # DedupeKey(rows[i]) }

\* s is rows with the positions outside keep struck out, order kept.
IsRestriction(s, rows, keep) ==
    /\ Len(s) = Cardinality(keep)
    /\ \A k \in 1..Len(s) :
          \E i \in keep : /\ s[k] = rows[i]
                          /\ Cardinality({ j \in keep : j < i }) = k - 1

RemoveAt(rows, i) == SubSeq(rows, 1, i - 1) \o SubSeq(rows, i + 1, Len(rows))

\* C11: the dedupe of run_clean keeps, per composite key (state_code,
\* month_canonical, current rate, prior rate), exactly the first publishable row in
\* input order: the result is the input restricted to first occurrences, its keys
\* are pairwise distinct, rows_deduped_input is the number of rows removed, a
\* second dedupe removes nothing, and a batch with a repeated row gives the points
\* of the batch without the repeat.
C11_DedupeFirstOccurrence ==
    CleanReturned =>
        LET pub == Publishable(validated)
            deduped == _dedupe(pub)
        IN  /\ IsRestriction(deduped, pub, FirstOfKey(pub))
            /\ \A a, b \in 1..Len(deduped) :
                  DedupeKey(deduped[a]) = DedupeKey(deduped[b]) => a = b
            /\ clean_output.rows_deduped_input = Len(pub) - Cardinality(FirstOfKey(pub))
            /\ _dedupe(deduped) = deduped
            /\ \A i \in 1..Len(pub) :
                  i \notin FirstOfKey(pub) =>
                      /\ CleanResult(RemoveAt(pub, i), clock - 1).final_rows = final_rows
                      /\ \A k \in 1..Len(final_rows) :
                            final_rows[k].source_row_index # pub[i].source_row_index

\* C11 witness: a batch of three publishable rows, the third repeating the first
\* with another row between them; one row was removed.
C11_Witness ==
    /\ pc = "clean_returned"
    /\ Len(validated) = 3
    /\ \A i \in 1..3 : validated[i].is_publishable
    /\ DedupeKey(validated[3]) = DedupeKey(validated[1])
    /\ DedupeKey(validated[2]) # DedupeKey(validated[1])
    /\ clean_output.rows_deduped_input = 1

\* The (state_code, date, value) triples of a list of points.
PointSet(points) ==
    { << points[i].state_code, points[i].date, points[i].value >> : i \in 1..Len(points) }

Permuted(rows, f) == [ k \in 1..Len(rows) |-> rows[f[k]] ]

\* C12: for a deduped list of publishable rows, run_clean gives the same set of
\* (state_code, date, value) points for every permutation of the list.
C12_OrderIndependent ==
    CleanReturned =>
        LET deduped == _dedupe(Publishable(validated))
        IN  \A f \in Permutations(1..Len(deduped)) :
                PointSet(CleanResult(Permuted(deduped, f), clock - 1).final_rows)
                    = PointSet(final_rows)

\* C13: the store is append-only.  A run_clean call leaves the lines it found
\* unchanged and in place and adds one line per returned point, in order; nothing
\* else touches the store; so the store is the concatenation of the runs' outputs.
C13_AppendOnly ==
    [][ IF pc = "run_clean"
        THEN /\ store' = store \o final_rows'
             /\ SubSeq(store', 1, Len(store)) = store
             /\ Len(store') = Len(store) + clean_output'.rows_appended
        ELSE store' = store ]_vars

\* C13 witness: the same batch of two points was cleaned twice; the store holds
\* four lines, the second pair repeating the points of the first.
C13_Witness ==
    /\ pc = "clean_returned"
    /\ runs_left = MaxCalls - 2
    /\ Len(final_rows) = 2
    /\ Len(store) = 4
    /\ SubSeq(store, 3, 4) = final_rows
    /\ \A k \in 1..2 :
          /\ store[k].state_code = store[k + 2].state_code
          /\ store[k].date = store[k + 2].date
          /\ store[k].value = store[k + 2].value

SameKey(a, b) == a.state_code = b.state_code /\ a.date = b.date

\* The batches were appended with strictly increasing ingest timestamps: along
\* the store ingest_run never decreases, and two lines of one key never share it.
IngestStrictlyIncreasing(lines) ==
    \A i, j \in 1..Len(lines) :
        i < j => /\ lines[i].ingest_run <= lines[j].ingest_run
                 /\ SameKey(lines[i], lines[j]) => lines[i].ingest_run < lines[j].ingest_run

\* C14: _read_latest_clean_data returns exactly one record per (state_code, date)
\* of the store, a line of the store whose ingest_run is the greatest of its key;
\* when the batches were appended with strictly increasing ingest timestamps that
\* record is the last line written for the key, keys written only by older
\* batches included.
C14_ReaderKeepsLatest ==
    pc = "read_returned" =>
        /\ \A i \in 1..Len(store) :
              Cardinality({ k \in 1..Len(clean_rows) : SameKey(clean_rows[k], store[i]) }) = 1
        /\ \A k \in 1..Len(clean_rows) :
              /\ \E i \in 1..Len(store) : store[i] = clean_rows[k]
              /\ \A i \in 1..Len(store) :
                    SameKey(store[i], clean_rows[k])
                        => store[i].ingest_run <= clean_rows[k].ingest_run
        /\ IngestStrictlyIncreasing(store) =>
              \A i \in 1..Len(store) :
                  (\A j \in (i + 1)..Len(store) : ~SameKey(store[j], store[i]))
                      => \E k \in 1..Len(clean_rows) : clean_rows[k] = store[i]

\* C14 witness: batches with increasing timestamps; an older batch alone wrote
\* (AK, 2025-01-01), two batches wrote one other key with different values; the
\* reader returns the later value and the AK point.
C14_Witness ==
    /\ pc = "read_returned"
    /\ IngestStrictlyIncreasing(store)
    /\ \E i, j \in 1..Len(store) :
          /\ i < j
          /\ SameKey(store[i], store[j])
          /\ store[i].value # store[j].value
          /\ \A l \in (j + 1)..Len(store) : ~SameKey(store[l], store[j])
          /\ \E k \in 1..Len(clean_rows) : clean_rows[k] = store[j]
    /\ \E i \in 1..Len(store) :
          /\ store[i].state_code = "AK"
          /\ store[i].ingest_run < store[Len(store)].ingest_run
          /\ \A j \in 1..Len(store) : SameKey(store[j], store[i]) => j = i
          /\ \E k \in 1..Len(clean_rows) : clean_rows[k] = store[i]

\* Some publishable row of the list gives the pivot a value for the month before
\* row i's month, for row i's state.
PriorMonthHasValue(rows, i) ==
    \E j \in 1..Len(rows) :
        /\ rows[j].is_publishable
        /\ rows[j].state_code = rows[i].state_code
        /\ \/ /\ ~IsNone(rows[j].unemployment_rate)
              /\ rows[j].month_canonical = CalendarPrev(rows[i].month_canonical)
           \/ /\ ~IsNone(rows[j].unemployment_rate_prev_month)
              /\ CalendarPrev(rows[j].month_canonical) = CalendarPrev(rows[i].month_canonical)

GainedImputedFlag(before, after) ==
    after = [ before EXCEPT !.qa_flags =
                Append(@, Flag("prev_month_imputed", << >>,
                               << CalendarPrev(before.month_canonical) >>, << >>)) ]

ImputedPass == pc = "imputed" /\ pc' = "gate"

\* C15 as stated: every row that carries missing_prev_month and whose prior month
\* will have a value gains prev_month_imputed, publishable or not.
C15_AsStated ==
    [][ ImputedPass =>
          \A i \in 1..Len(validated) :
              (HasFlag(validated[i], "missing_prev_month")
                  /\ PriorMonthHasValue(validated, i))
                  => GainedImputedFlag(validated[i], validated'[i]) ]_vars

\* C15 amended: the imputation pass appends prev_month_imputed to exactly the
\* publishable rows that carry missing_prev_month and whose prior month will have
\* a value; every other row, the unpublishable ones included, is left as it was.
C15_ImputedOnlyOnPublishable ==
    [][ ImputedPass =>
          /\ Len(validated') = Len(validated)
          /\ \A i \in 1..Len(validated) :
                IF /\ validated[i].is_publishable
                   /\ HasFlag(validated[i], "missing_prev_month")
                   /\ PriorMonthHasValue(validated, i)
                THEN GainedImputedFlag(validated[i], validated'[i])
                ELSE validated'[i] = validated[i] ]_vars

\* C15 witness: after the pass a publishable row carries prev_month_imputed while
\* an unpublishable row with missing_prev_month, whose prior month has a value as
\* well, does not.
C15_Witness ==
    /\ pc = "gate"
    /\ \E i, k \in 1..Len(validated) :
          /\ ~validated[i].is_publishable
          /\ HasFlag(validated[i], "missing_prev_month")
          /\ PriorMonthHasValue(validated, i)
          /\ ~HasFlag(validated[i], "prev_month_imputed")
          /\ validated[k].is_publishable
          /\ HasFlag(validated[k], "prev_month_imputed")

\* The (state_code, date) keys of a list of points.
PointKeys(points) ==
    { << points[i].state_code, points[i].date >> : i \in 1..Len(points) }

\* C16: for the rows of a validated batch, the will-have-value set of the
\* imputation pass is the set of (state_code, month) keys of the points run_clean
\* produces from them; a publishable row with missing_prev_month carries
\* prev_month_imputed iff the pivot output has a point for its state at its
\* previous month; and no point comes from a row blocked by rate_conflict.
C16_WillHaveValueIsPivotKeys ==
    (entry = "main" /\ pc = "main_cleaned") =>
        /\ PointKeys(final_rows)
              = { << k[1], FirstOf(k[2]) >> : k \in WillHaveValue(validated) }
        /\ \A i \in 1..Len(validated) :
              (validated[i].is_publishable /\ HasFlag(validated[i], "missing_prev_month"))
                  => (HasFlag(validated[i], "prev_month_imputed")
                        <=> PointsAt(final_rows, validated[i].state_code,
                                     FirstOf(CalendarPrev(validated[i].month_canonical))) # {})
        /\ \A k \in 1..Len(final_rows) :
              \A i \in 1..Len(validated) :
                  validated[i].source_row_index = final_rows[k].source_row_index
                      => ~HasFlag(validated[i], "rate_conflict")

\* C16 witness: a row blocked by rate_conflict for month M, and a publishable row
\* for month M+1 without prior rate that carries prev_month_imputed: the point
\* for M comes from the claiming row, with another value than the blocked row's.
C16_Witness ==
    /\ entry = "main"
    /\ pc = "main_cleaned"
    /\ \E a, d \in 1..Len(validated) :
          /\ HasFlag(validated[a], "rate_conflict")
          /\ validated[d].is_publishable
          /\ HasFlag(validated[d], "prev_month_imputed")
          /\ validated[d].state_code = validated[a].state_code
          /\ CalendarPrev(validated[d].month_canonical) = validated[a].month_canonical
          /\ \A k \in PointsAt(final_rows, validated[a].state_code,
                               FirstOf(validated[a].month_canonical)) :
                /\ final_rows[k].value # validated[a].unemployment_rate.v
                /\ final_rows[k].source_row_index # validated[a].source_row_index

\* C17: for every publishable row _pivot_row gives first the current-month
\* point, dated month_canonical + "-01" and valued the current rate, and then,
\* iff the prior rate is present, one point dated the first of the previous
\* calendar month, "YYYY-MM-01", and valued the prior rate: one or two points,
\* each with a value taken from a non-null rate of the row.
C17_PivotRowPoints ==
    pc = "pivoted" =>
        LET row == validated[1]
            prior == row.unemployment_rate_prev_month
        IN  /\ ~IsNone(row.unemployment_rate)
            /\ Len(final_rows) = IF IsNone(prior) THEN 1 ELSE 2
            /\ final_rows[1].date = row.month_canonical \o << "-", "0", "1" >>
            /\ final_rows[1].value = row.unemployment_rate.v
            /\ ~IsNone(prior) =>
                  /\ WellFormedDate(final_rows[2].date)
                  /\ final_rows[2].date = FirstOf(PreviousMonth(row.month_canonical))
                  /\ final_rows[2].value = prior.v
            /\ \A k \in 1..Len(final_rows) :
                  /\ final_rows[k].state_code = row.state_code
                  /\ final_rows[k].state_canonical = row.state_canonical
                  /\ final_rows[k].source_row_index = row.source_row_index
                  /\ final_rows[k].ingest_run = clock

\* The point is the current-month or the prior-month point of the row.
PointOfRow(point, row) ==
    /\ point.state_code = row.state_code
    /\ point.source_row_index = row.source_row_index
    /\ \/ /\ ~IsNone(row.unemployment_rate)
          /\ point.value = row.unemployment_rate.v
          /\ point.date = FirstOf(row.month_canonical)
       \/ /\ ~IsNone(row.unemployment_rate_prev_month)
          /\ point.value = row.unemployment_rate_prev_month.v
          /\ point.date = FirstOf(CalendarPrev(row.month_canonical))

\* C18: unpublishable rows never reach the output.  Every point run_clean returns
\* is the current-month or prior-month point of a row with is_publishable = true,
\* no point carries the index of an unpublishable row, and points and revision
\* count are those of the batch with its unpublishable rows taken out.
C18_UnpublishableNeverOutput ==
    (entry = "main" /\ pc = "main_cleaned") =>
        LET kept == SelectSeq(validated, LAMBDA r : r.is_publishable)
            without == CleanResult(kept, clock - 1)
        IN  /\ \A k \in 1..Len(final_rows) :
                  /\ \E i \in 1..Len(validated) :
                        validated[i].is_publishable /\ PointOfRow(final_rows[k], validated[i])
                  /\ \A i \in 1..Len(validated) :
                        ~validated[i].is_publishable =>
                            final_rows[k].source_row_index # validated[i].source_row_index
            /\ final_rows = without.final_rows
            /\ clean_output.revisions_applied = without.revisions_applied
            /\ store = final_rows

\* C18 witness: a row with both rates, blocked by rate_conflict, sits in a batch
\* that was cleaned; the output has points, none of them from that row.
C18_Witness ==
    /\ entry = "main"
    /\ pc = "main_cleaned"
    /\ final_rows # << >>
    /\ \E i \in 1..Len(validated) :
          /\ ~validated[i].is_publishable
          /\ ~IsNone(validated[i].unemployment_rate)
          /\ ~IsNone(validated[i].unemployment_rate_prev_month)
          /\ \A k \in 1..Len(final_rows) :
                final_rows[k].source_row_index # validated[i].source_row_index

\* The points in the order the pivot loop of run_clean emits them.
Emitted(rows, ingest_run) ==
    PivotAll(SortByMonth(_dedupe(SelectSeq(rows, LAMBDA r : r.is_publishable))), ingest_run)

\* The emissions before the n-th under the n-th's key.
EarlierAtKey(pts, n) == { m \in 1..(n - 1) : SameKey(pts[m], pts[n]) }

LastOf(S) == CHOOSE m \in S : \A o \in S : o <= m

\* The n-th emission replaces a point of another value.
ReplacesOtherValue(pts, n) ==
    /\ EarlierAtKey(pts, n) # {}
    /\ pts[LastOf(EarlierAtKey(pts, n))].value # pts[n].value

\* C19: in the pivot every emitted point replaces the point stored under its key,
\* so each key ends with the last point emitted for it, and revisions_applied
\* counts exactly the emissions that replace a point of a different value: not
\* the first write of a key, not a replacement by an equal value.
C19_OverwriteAndRevisionCount ==
    CleanReturned =>
        LET pts == Emitted(validated, clock - 1)
        IN  /\ \A n \in 1..Len(pts) :
                  (\A m \in (n + 1)..Len(pts) : ~SameKey(pts[m], pts[n]))
                      <=> \E k \in 1..Len(final_rows) : final_rows[k] = pts[n]
            /\ Len(final_rows) = Cardinality(PointKeys(pts))
            /\ clean_output.revisions_applied
                  = Cardinality({ n \in 1..Len(pts) : ReplacesOtherValue(pts, n) })

\* C19 witness: two replacements happened, one by an equal value and one by a
\* different value, and one revision was counted.
C19_Witness ==
    /\ pc = "clean_returned"
    /\ LET pts == Emitted(validated, clock - 1)
       IN  /\ Len(pts) = Len(final_rows) + 2
           /\ \E n \in 1..Len(pts) :
                 /\ EarlierAtKey(pts, n) # {}
                 /\ ~ReplacesOtherValue(pts, n)
    /\ clean_output.revisions_applied = 1

\* The point is the prior-month point of the row, whose own month is the month
\* after the month of the point's key.
PriorPointOfLaterRow(point, row) ==
    /\ row.is_publishable
    /\ ~IsNone(row.unemployment_rate_prev_month)
    /\ point.state_code = row.state_code
    /\ point.source_row_index = row.source_row_index
    /\ point.value = row.unemployment_rate_prev_month.v
    /\ point.date = FirstOf(CalendarPrev(row.month_canonical))
    /\ TextLess(point.date, FirstOf(row.month_canonical))

\* C20: every revision counted in revisions_applied is the prior-month point of a
\* later-dated row replacing the value recorded for that earlier month.
C20_RevisionsAreLaterClaims ==
    CleanReturned =>
        LET pts == Emitted(validated, clock - 1)
        IN  /\ clean_output.revisions_applied
                  = Cardinality({ n \in 1..Len(pts) : ReplacesOtherValue(pts, n) })
            /\ \A n \in 1..Len(pts) :
                  ReplacesOtherValue(pts, n) =>
                      \E i \in 1..Len(validated) : PriorPointOfLaterRow(pts[n], validated[i])

\* A validated row without its source_row_index, its flags as categories.
Shape(row) ==
    [ state_canonical |-> row.state_canonical,
      state_code |-> row.state_code,
      month_canonical |-> row.month_canonical,
      unemployment_rate |-> row.unemployment_rate,
      unemployment_rate_prev_month |-> row.unemployment_rate_prev_month,
      source |-> row.source,
      is_publishable |-> row.is_publishable,
      cats |-> [ k \in 1..Len(row.qa_flags) |-> row.qa_flags[k].cat ] ]

\* The rows run_validation holds after its two cross-row passes, each pass
\* applied to the finished list of the pass before.
RunValidationRows(recs) ==
    LET rows == ValidateAll(recs) \o << >>
        checked == _check_rate_conflicts(rows) \o << >>
    IN  _check_prev_month_imputed(checked) \o << >>

Rejected(recs) == { i \in 1..Len(recs) : ~RawRowCoercible(recs[i]) }

\* C21: a raw row that RawRow rejects is dropped.  _validate_row returns None for
\* it, no validated row carries its index, and the validated rows, the QA
\* summary, the gate result, the latest data month and the manifest's row counts
\* are those of the batch with the rejected rows taken out: the row counts for
\* the gate neither as publishable nor as unpublishable.
C21_StructuralDrop ==
    (entry = "main" /\ pc \in {"main_validated", "run_clean"}) =>
        LET coercible == SelectSeq(raw_records, RawRowCoercible)
            alone == RunValidationRows(coercible)
        IN  /\ \A i \in Rejected(raw_records) :
                  /\ _validate_row(raw_records[i], i + 1) = << >>
                  /\ \A k \in 1..Len(validated) : validated[k].source_row_index # i + 1
            /\ Len(validated) = Len(coercible)
            /\ \A k \in 1..Len(validated) : Shape(validated[k]) = Shape(alone[k])
            /\ rows_file.qa_summary = _qa_summary(alone)
            /\ gate_passed = _check_publish_gate(alone)
            /\ latest_data_month = LatestDataMonth(alone)
            /\ pc = "run_clean" =>
                  /\ manifest.rows_validated = Num(Len(coercible))
                  /\ manifest.rows_publishable = Num(Len(Publishable(alone)))

\* C21 witness: twenty states are fully unpublishable and the batch has one more
\* row, of a twenty-first state and without a rate, that RawRow rejects; the gate
\* passed and no validated row is of that state.
C21_Witness ==
    /\ entry = "main"
    /\ pc = "run_clean"
    /\ gate_passed
    /\ FullyUnpublishable(validated) = 20
    /\ \E i \in Rejected(raw_records) :
          /\ raw_records[i].state_code = Text("WY")
          /\ IsNone(raw_records[i].unemployment_rate)
          /\ \A k \in 1..Len(validated) : validated[k].state_code # "WY"

\* C22: for every "YYYY-MM" with MM in 02..12 _prev_month gives the same year
\* with month MM-1 and for "YYYY-01" December of the year before, as "YYYY-MM";
\* no two calendar months have the same previous month; and _prev_month_date
\* gives the text of _prev_month with "-01" appended.
C22_PreviousMonth ==
    pc = "returned" =>
        /\ ret[1].ok
        /\ ret[1].text = PreviousMonth(call.year_month)
        /\ \A o \in PrevMonths :
              o # call.year_month => _prev_month(o).text # ret[1].text
        /\ ret[2].ok
        /\ ret[2].text = ret[1].text \o << "-", "0", "1" >>

\* The part of C22 that holds whatever the year: the month number, the year
\* number, injectivity and the agreement of the two helpers.
C22_UpToYearPadding ==
    pc = "returned" =>
        LET want == SplitDash(PreviousMonth(call.year_month), << >>)
            got == SplitDash(ret[1].text, << >>)
        IN  /\ ret[1].ok
            /\ Len(got) = 2
            /\ IntOf(got[1]) = IntOf(want[1])
            /\ got[2] = want[2]
            /\ \A o \in PrevMonths :
                  o # call.year_month => _prev_month(o).text # ret[1].text
            /\ ret[2].ok
            /\ ret[2].text = ret[1].text \o << "-", "0", "1" >>

\* run_validation has built its list of validated rows in this run.
RowsValidated ==
    entry = "main" /\ pc \notin {"main_started", "run_validation", "read", "raised"}

\* The validated row was made from the raw row: same code, month and rate cells.
MadeFrom(row, raw) ==
    /\ RawRowCoercible(raw)
    /\ row.state_code = TextUpper(TextStrip(raw.state_code.s))
    /\ row.source = raw.source.s
    /\ row.unemployment_rate = FloatCoerced(raw.unemployment_rate)
    /\ row.unemployment_rate_prev_month = FloatCoerced(raw.unemployment_rate_prev_month)
    /\ row.month_canonical \in
          { MonthStr(raw.month) } \cup { t[1] : t \in { _normalize_date(MonthStr(raw.month)) } \ { << >> } }

\* C23: in one run_validation batch the validated rows have pairwise distinct
\* source_row_index values, and the index of a row is its position in the raw
\* input plus one (the header row): the row at raw position i, if it is kept,
\* has index i + 1 whatever rows before it were dropped, and no other row has it.
C23_SourceRowIndex ==
    RowsValidated =>
        /\ \A k, l \in 1..Len(validated) :
              k < l => validated[k].source_row_index < validated[l].source_row_index
        /\ \A k \in 1..Len(validated) :
              LET i == validated[k].source_row_index - 1
              IN  /\ i \in 1..Len(raw_records)
                  /\ MadeFrom(validated[k], raw_records[i])
        /\ \A i \in 1..Len(raw_records) :
              RawRowCoercible(raw_records[i]) =>
                  \E k \in 1..Len(validated) : validated[k].source_row_index = i + 1

\* C23 witness: a rejected row stands before a kept row of another state, and
\* the kept row's index is its raw position plus one, not its place in the list.
C23_Witness ==
    /\ RowsValidated
    /\ \E i, j \in 1..Len(raw_records) :
          /\ i < j
          /\ i \in Rejected(raw_records)
          /\ RawRowCoercible(raw_records[j])
          /\ raw_records[j].state_code # raw_records[i].state_code
          /\ \E k \in 1..Len(validated) :
                /\ validated[k].source_row_index = j + 1
                /\ k < j
                /\ MadeFrom(validated[k], raw_records[j])

\* main() holds the rows that run_validation returned after its two passes.
Reconciliated ==
    /\ entry = "main"
    /\ pc \in {"gate", "write", "main_validated", "run_clean", "main_cleaned",
               "run_output", "main_output"}

\* C24: once the two reconciliation passes are done no validated row changes:
\* the gate check, the writing of the rows file, main's bookkeeping, run_clean
\* and run_output leave the list and every field of every row as they were.
C24_RowsFrozenAfterReconciliation ==
    [][Reconciliated => validated' = validated]_vars

\* C24 witness: run_clean has returned after applying a revision and leaving a
\* row out, and the rows in memory are still the rows the two passes produced.
C24_Witness ==
    /\ entry = "main"
    /\ pc = "main_cleaned"
    /\ clean_output.revisions_applied > 0
    /\ \E i \in 1..Len(validated) : HasFlag(validated[i], "rate_conflict")
    /\ validated = RunValidationRows(raw_records)
    /\ validated = rows_file.rows

\* x is strictly better than y in the chosen direction.
Better(x, y, reverse) == IF reverse THEN x > y ELSE x < y

RankOfKey(ranks, key) ==
    ranks[CHOOSE k \in 1..Len(ranks) : ranks[k].key = key].rank

\* C25: _competition_ranks gives every key, once, the rank 1 + the number of
\* items whose value is strictly better in the chosen direction (greater when
\* descending, the default; smaller when ascending).  Equal values share a rank
\* and the next distinct value skips the tied positions.
C25_CompetitionRanks ==
    (pc = "returned" /\ call.fn = "_competition_ranks") =>
        LET items == call.items
            ranks == ret[1]
        IN  /\ Len(ranks) = Len(items)
            /\ \A i \in 1..Len(items) :
                  /\ Cardinality({ k \in 1..Len(ranks) : ranks[k].key = items[i].key }) = 1
                  /\ RankOfKey(ranks, items[i].key)
                        = 1 + Cardinality({ j \in 1..Len(items) :
                                Better(items[j].value, items[i].value, call.reverse) })

\* C25 witness: descending order, two keys tied at the top and a third below:
\* the ranks are 1, 1 and 3.
C25_Witness ==
    /\ pc = "returned"
    /\ call.fn = "_competition_ranks"
    /\ call.reverse
    /\ call.items = << [key |-> "AL", value |-> 40], [key |-> "AK", value |-> 50],
                       [key |-> "AZ", value |-> 50] >>
    /\ RankOfKey(ret[1], "AK") = 1
    /\ RankOfKey(ret[1], "AZ") = 1
    /\ RankOfKey(ret[1], "AL") = 3

GateStep == pc = "gate" /\ pc' = "write"

\* The latest month among the publishable rows, "" (<< >>) when there is none.
IsLatestPublishableMonth(rows, month) ==
    LET months == { rows[i].month_canonical :
                      i \in { k \in 1..Len(rows) : rows[k].is_publishable } }
    IN  IF months = {} THEN month = << >>
        ELSE month \in months /\ \A o \in months : ~TextLess(month, o)

\* C26: run_validation decides the gate only after both cross-row passes, the
\* rate-conflict pass first and the imputation pass second.  When the gate is
\* decided every row that met a differing claim is already unpublishable and
\* flagged rate_conflict, the imputation flags were set on the verdicts the
\* conflict pass left, and gate result and latest_data_month are computed from
\* those verdicts: a row blocked by rate_conflict counts as unpublishable.
C26_GateAfterBothPasses ==
    [][ /\ (pc' = "conflicts" /\ pc # "conflicts") => pc = "read"
        /\ (pc' = "imputed" /\ pc # "imputed") => pc = "conflicts"
        /\ (pc' = "gate" /\ pc # "gate") => pc = "imputed"
        /\ (pc' = "write" /\ pc # "write") => pc = "gate"
        /\ (gate_passed' /\ ~gate_passed) => GateStep
        /\ GateStep =>
              LET pre == ValidateAll(raw_records) \o << >>
              IN  /\ validated' = validated
                  /\ Len(validated) = Len(pre)
                  /\ \A i \in 1..Len(pre) :
                        /\ MeetsDifferingClaim(pre, i) <=>
                              HasFlag(validated[i], "rate_conflict")
                        /\ HasFlag(validated[i], "rate_conflict") =>
                              ~validated[i].is_publishable
                        /\ HasFlag(validated[i], "prev_month_imputed") =>
                              /\ validated[i].is_publishable
                              /\ PriorMonthHasValue(validated, i)
                  /\ gate_passed' <=>
                        Cardinality(CodesWithoutPublishableRow(validated)) <= 20
                  /\ IsLatestPublishableMonth(validated, latest_data_month') ]_vars

\* C26 witness: the gate has been decided on a batch in which the conflict pass
\* blocked a row; the latest data month is that of a publishable row and the
\* blocked row, once publishable, is not among the publishable rows.
C26_Witness ==
    /\ entry = "main"
    /\ pc = "write"
    /\ gate_passed
    /\ latest_data_month # << >>
    /\ \E i \in 1..Len(validated) :
          /\ HasFlag(validated[i], "rate_conflict")
          /\ ~validated[i].is_publishable
          /\ ValidateAll(raw_records)[i].is_publishable
          /\ TextLess(validated[i].month_canonical, latest_data_month)

IsPrefix(s, t) == Len(s) <= Len(t) /\ SubSeq(t, 1, Len(s)) = s

AbortedRun == << "started", "validating", "ABORTED" >>
CompletedRun == << "started", "validating", "cleaning", "outputting", "completed" >>
AllSteps == << "validate", "clean", "output" >>

\* C27: the statuses main() writes to run_manifest.json are a prefix of
\* started, validating, ABORTED or of started, validating, cleaning, outputting,
\* completed; steps_completed is always a prefix of validate, clean, output; the
\* clean step starts only with validate recorded and gate_passed true; and
\* status completed is written only with all three steps recorded.
C27_ManifestStatuses ==
    entry = "main" =>
        LET written == run_manifest_json
        IN  /\ IsPrefix(history, AbortedRun) \/ IsPrefix(history, CompletedRun)
            /\ history # << >>
            /\ written.status = history[Len(history)]
            /\ IsPrefix(written.steps_completed, AllSteps)
            /\ IsPrefix(manifest.steps_completed, AllSteps)
            /\ written.status \in {"started", "validating"} =>
                  written.steps_completed = << >> /\ written.gate_passed = "None"
            /\ written.status = "ABORTED" =>
                  written.steps_completed = << "validate" >> /\ written.gate_passed = "False"
            /\ written.status = "cleaning" =>
                  written.steps_completed = << "validate" >> /\ written.gate_passed = "True"
            /\ written.status = "outputting" =>
                  written.steps_completed = << "validate", "clean" >>
            /\ written.status = "completed" => written.steps_completed = AllSteps
            /\ (pc = "run_clean" \/ RunCleanCalled) =>
                  /\ IsPrefix(<< "started", "validating", "cleaning" >>, history)
                  /\ IsPrefix(<< "validate" >>, written.steps_completed)
                  /\ written.gate_passed = "True"
                  /\ gate_passed

\* C27 witness: a run went through all five statuses and recorded three steps.
C27_Witness ==
    /\ entry = "main"
    /\ pc = "exited"
    /\ history = CompletedRun
    /\ run_manifest_json.status = "completed"
    /\ run_manifest_json.steps_completed = AllSteps
    /\ store # << >>

\* Publishable rows i and j of one state, j for the month after i's, i with a
\* current rate and j with a prior rate.
FacingRows(rows, i, j) ==
    /\ rows[i].is_publishable
    /\ rows[j].is_publishable
    /\ rows[i].state_code = rows[j].state_code
    /\ ~IsNone(rows[i].unemployment_rate)
    /\ ~IsNone(rows[j].unemployment_rate_prev_month)
    /\ MonthAfter(rows, i, j)

ConflictsChecked ==
    /\ entry = "main"
    /\ pc \in {"imputed", "gate", "write", "main_validated", "run_clean", "main_cleaned"}

\* C28: after _check_rate_conflicts no disagreement is left among publishable
\* rows: two rows that are both still publishable, of one state, one for month M
\* with current rate c and one for month M+1 with prior rate p, have c = p; so
\* in validate followed by clean the prior-month point of the later row never
\* changes the value of the earlier row's current-month point.
C28_NoDisagreementLeft ==
    ConflictsChecked =>
        \A i, j \in 1..Len(validated) :
            FacingRows(validated, i, j) =>
                /\ validated[i].unemployment_rate.v
                      = validated[j].unemployment_rate_prev_month.v
                /\ pc = "main_cleaned" =>
                      \A k \in PointsAt(final_rows, validated[i].state_code,
                                         FirstOf(validated[i].month_canonical)) :
                          final_rows[k].source_row_index = validated[j].source_row_index
                              => final_rows[k].value = validated[i].unemployment_rate.v

BlockingCategories ==
    { "unknown_state_code", "unparseable_date", "missing_rate", "implausible_rate",
      "rate_conflict" }

NonBlockingCategories ==
    { "state_name_normalized", "date_corrected", "missing_prev_month",
      "rate_unusually_high", "prev_month_imputed" }

HasBlockingFlag(row) ==
    \E k \in 1..Len(row.qa_flags) : row.qa_flags[k].cat \in BlockingCategories

\* C29: after _validate_row, and after each of the two passes, a row is
\* unpublishable iff its qa_flags hold at least one flag of a blocking category;
\* a row whose flags are all of non-blocking categories is publishable, and no
\* flag is of another category.
C29_UnpublishableIffBlockingFlag ==
    pc \in {"conflicts", "imputed", "gate"} =>
        \A i \in 1..Len(validated) :
            /\ ~validated[i].is_publishable <=> HasBlockingFlag(validated[i])
            /\ \A k \in 1..Len(validated[i].qa_flags) :
                  validated[i].qa_flags[k].cat
                      \in BlockingCategories \cup NonBlockingCategories

\* C29 witness: both passes are done; one row is unpublishable with rate_conflict
\* as its only blocking flag, and another row is publishable with flags, all of
\* them non-blocking.
C29_Witness ==
    /\ pc = "gate"
    /\ \E i, j \in 1..Len(validated) :
          /\ ~validated[i].is_publishable
          /\ \A k \in 1..Len(validated[i].qa_flags) :
                validated[i].qa_flags[k].cat \in BlockingCategories
                    => validated[i].qa_flags[k].cat = "rate_conflict"
          /\ validated[j].is_publishable
          /\ validated[j].qa_flags # << >>

\* The point is dated the first of the row's own calendar month or of the
\* calendar month before it.
DatedByRow(point, row) ==
    /\ IsCalendarMonth(row.month_canonical)
    /\ point.date \in { FirstOf(row.month_canonical),
                         FirstOf(PreviousMonth(row.month_canonical)) }

\* C30: every point run_clean produces from rows that _validate_row passed as
\* publishable is dated "YYYY-MM-01" with a four-digit year and MM in 01..12,
\* the current-month and the prior-month point alike, and lies under the key of
\* its row's month or of the month before: no accepted month text gives a
\* malformed date or the key of another month.
C30_WellFormedDates ==
    (entry = "main" /\ pc = "main_cleaned") =>
        \A k \in 1..Len(final_rows) :
            /\ WellFormedDate(final_rows[k].date)
            /\ \A i \in 1..Len(validated) :
                  validated[i].source_row_index = final_rows[k].source_row_index
                      => DatedByRow(final_rows[k], validated[i])

====
